---- MODULE Spec2Model ----
(***************************************************************************)
(* A model of parliamentarch's geometric layout engine                     *)
(* (src/src/parliamentarch/geometry.py): the row planner, its two          *)
(* functools caches, and get_seats_centers with its three filling          *)
(* strategies.                                                             *)
(*                                                                         *)
(* Numbers.  The code computes in binary floating point.  The model        *)
(* computes the same quantities exactly: a float that is a rational        *)
(* function of the integer inputs is a pair <<numerator, denominator>>     *)
(* in lowest terms, and a multiple of math.pi is kept as its rational      *)
(* coefficient.  int(pi * q) is evaluated with a rational lower            *)
(* approximation of pi, whose error (below 1e-9) is far smaller than the   *)
(* distance of any evaluated multiple of pi to an integer.                 *)
(***************************************************************************)
EXTENDS Integers, Sequences, FiniteSets, TLC

\* ------------------------------------------------------------------ bounds
\* Largest seat count a call is made with.
MaxSeats == 24
\* The larger of the two min_nrows values a call is made with (0 is the other).
MaxMinRows == 4
\* Number of API calls in one run of the process.
MaxCalls == 3
\* Largest number of seats a group asks dispatch_seats for.
MaxGroupSeats == 2
\* Largest number of seats dispatch_seats is passed.
MaxDispatchSeats == 3

\* Largest seat number of a scraped path.
MaxSeatNumber == 3

\* ------------------------------------------------------- program constants
\* geometry.py:10
_DEFAULT_SPAN_ANGLE == 180
\* math.pi (geometry.py:41) as the rational PiLoNum/PiLoDen, just below pi.
PiLoNum == 103993
PiLoDen == 33102

\* ------------------------------------------------------------- input sets
SeatCounts == 0..MaxSeats
MinRows == {0, MaxMinRows}
\* span_angle, in degrees: the default and two narrower spans.
Spans == {_DEFAULT_SPAN_ANGLE, 90, 60}
\* FillingStrategy's members are the strings enum.auto() gives a StrEnum.
DEFAULT == "default"
EMPTY_INNER == "empty_inner"
OUTER_PRIORITY == "outer_priority"
FillingStrategy == {DEFAULT, EMPTY_INNER, OUTER_PRIORITY}
\* A value that is none of the members.
Strategies == FillingStrategy \cup {"bogus"}
\* seat_radius_factor values: the default 1 and 4/5.
SeatRadiusFactors == {<<1, 1>>, <<4, 5>>}

\* -------------------------------------------------------------- rationals
RECURSIVE GCD(_, _)
GCD(a, b) == IF b = 0 THEN a ELSE GCD(b, a % b)

Abs(x) == IF x < 0 THEN -x ELSE x

\* The rational n/d (d # 0) in lowest terms with a positive denominator.
Rat(n, d) ==
    LET g == GCD(Abs(n), Abs(d))
        s == IF d < 0 THEN -1 ELSE 1
    IN <<(s * n) \div g, (s * d) \div g>>

RAdd(a, b) == Rat(a[1] * b[2] + b[1] * a[2], a[2] * b[2])
RMul(a, b) == Rat(a[1] * b[1], a[2] * b[2])
RDiv(a, b) == Rat(a[1] * b[2], a[2] * b[1])
RLt(a, b) == a[1] * b[2] < b[1] * a[2]
RInt(n) == <<n, 1>>

\* int(math.pi * q) for a rational q >= 0.
IntPiTimes(q) == (PiLoNum * q[1]) \div (PiLoDen * q[2])

\* sum() of a tuple of integers.
RECURSIVE Sum(_)
Sum(s) == IF s = <<>> THEN 0 ELSE Head(s) + Sum(Tail(s))

Max(a, b) == IF a >= b THEN a ELSE b

\* F(v), with v evaluated once before F is applied: a local variable of the code
\* that is assigned once and read several times.
Let(v, F(_)) == CHOOSE y \in {F(x) : x \in {v}} : TRUE

\* A faulty round: int(p/q), which drops the fractional part.
Round_Truncate(p, q) == p \div q

\* round(p/q) for integers p >= 0, q > 0: Python rounds a tie to the even integer.
Round(p, q) ==
    LET f == p \div q
        twice == 2 * (p % q)
    IN IF twice < q THEN f
       ELSE IF twice > q THEN f + 1
       ELSE IF f % 2 = 0 THEN f ELSE f + 1

\* ------------------------------------------------------------ row planner
\* A faulty thickness: 1 / (4*nrows + 2).
_get_row_thickness_PlusTwo(nrows) == Rat(1, 4 * nrows + 2)

\* Thickness of a row for nrows rows.
_get_row_thickness(nrows) == Rat(1, 4 * nrows - 2)

\* A faulty radius: rows counted from 1.
RowRadius_FromOne(r, rad) == RAdd(<<1, 2>>, RMul(RInt(2 * (r + 1)), rad))

\* Radius of row r (0-based) for row thickness rad: R = .5 + 2*r*rad.
RowRadius(r, rad) == RAdd(<<1, 2>>, RMul(RInt(2 * r), rad))

\* Maximal number of seats of each row, inner to outer; row r is entry r+1.
get_rows_from_nrows(nrows, span_angle) ==
    LET rad == _get_row_thickness(nrows)
        \* radian_span_angle = math.pi * span_angle / 180, as a multiple of pi
        radian_span_angle == Rat(span_angle, 180)
    IN [i \in 1..nrows |->
          LET R == RowRadius(i - 1, rad)
          IN IntPiTimes(RDiv(RMul(radian_span_angle, R), RMul(RInt(2), rad)))]

\* --------------------------------------------------------------- the state
\* rows_cache, nrows_cache: the functools.cache of _cached_get_rows_from_nrows and
\*   of _cached_get_nrows_from_nseats, as functions from the argument tuples that
\*   have been memoized to the stored values.
\* call: the API call that has been made and has not run yet, with its arguments.
\* last: the API call that ran last: its arguments, the values of its local
\*   variables and its outcome.
\* ncalls: the number of API calls made so far.
VARIABLES rows_cache, nrows_cache, call, last, ncalls

vars == <<rows_cache, nrows_cache, call, last, ncalls>>

EmptyCache == [k \in {} |-> 0]

\* cache with key k memoized as v (a stored entry is never overwritten).
Memoize(cache, k, v) ==
    IF k \in DOMAIN cache THEN cache
    ELSE [x \in DOMAIN cache \cup {k} |-> IF x = k THEN v ELSE cache[x]]

\* A faulty cache: a lookup keyed by nrows alone, whatever the span_angle.
_cached_get_rows_from_nrows_KeyedByNrows(cache, nrows, span_angle) ==
    IF \E k \in DOMAIN cache : k[1] = nrows
    THEN cache[CHOOSE k \in DOMAIN cache : k[1] = nrows]
    ELSE get_rows_from_nrows(nrows, span_angle)

\* tuple(get_rows_from_nrows(nrows, span_angle)) through its functools.cache.
_cached_get_rows_from_nrows(cache, nrows, span_angle) ==
    IF <<nrows, span_angle>> \in DOMAIN cache
    THEN cache[<<nrows, span_angle>>]
    ELSE get_rows_from_nrows(nrows, span_angle)

\* A faulty loop: while sum(...) <= nseats, which asks for room for one seat more.
RECURSIVE NrowsLoop_OneSeatMore(_, _, _, _)
NrowsLoop_OneSeatMore(i, nseats, span_angle, cache) ==
    Let(_cached_get_rows_from_nrows(cache, i, span_angle), LAMBDA rows :
    Let(Memoize(cache, <<i, span_angle>>, rows), LAMBDA cache2 :
        IF Sum(rows) <= nseats
        THEN NrowsLoop_OneSeatMore(i + 1, nseats, span_angle, cache2)
        ELSE [rv |-> i, rows_cache |-> cache2]))

\* The while loop of get_nrows_from_nseats from candidate i on: the row count it
\* returns and the rows cache as the loop leaves it.
RECURSIVE NrowsLoop(_, _, _, _)
NrowsLoop(i, nseats, span_angle, cache) ==
    Let(_cached_get_rows_from_nrows(cache, i, span_angle), LAMBDA rows :
    Let(Memoize(cache, <<i, span_angle>>, rows), LAMBDA cache2 :
        IF Sum(rows) < nseats
        THEN NrowsLoop(i + 1, nseats, span_angle, cache2)
        ELSE [rv |-> i, rows_cache |-> cache2]))

\* The minimal number of rows necessary to contain nseats seats.
get_nrows_from_nseats(nseats, span_angle, cache) ==
    NrowsLoop(1, nseats, span_angle, cache)

\* A faulty cache: a lookup keyed by nseats alone, whatever the span_angle.
_cached_get_nrows_from_nseats_KeyedBySeats(nseats, span_angle, ncache, rcache) ==
    IF \E k \in DOMAIN ncache : k[1] = nseats
    THEN [rv |-> ncache[CHOOSE k \in DOMAIN ncache : k[1] = nseats],
          rows_cache |-> rcache, nrows_cache |-> ncache]
    ELSE Let(get_nrows_from_nseats(nseats, span_angle, rcache), LAMBDA got :
             [rv |-> got.rv, rows_cache |-> got.rows_cache,
              nrows_cache |-> Memoize(ncache, <<nseats, span_angle>>, got.rv)])

\* get_nrows_from_nseats through its functools.cache.
_cached_get_nrows_from_nseats(nseats, span_angle, ncache, rcache) ==
    IF <<nseats, span_angle>> \in DOMAIN ncache
    THEN [rv |-> ncache[<<nseats, span_angle>>],
          rows_cache |-> rcache, nrows_cache |-> ncache]
    ELSE Let(get_nrows_from_nseats(nseats, span_angle, rcache), LAMBDA got :
             [rv |-> got.rv, rows_cache |-> got.rows_cache,
              nrows_cache |-> Memoize(ncache, <<nseats, span_angle>>, got.rv)])

\* ------------------------------------------------------------- seat placer
\* rows[1:] and rows.pop(0) of a list.
Rest(rows) == IF rows = <<>> THEN <<>> ELSE Tail(rows)

\* A faulty loop: while sum(rows[1:]) > nseats, which keeps a row too many when
\* the outer rows hold exactly nseats.
RECURSIVE EmptyInnerLoop_Strict(_, _)
EmptyInnerLoop_Strict(rows, nseats) ==
    IF Sum(Rest(rows)) > nseats
    THEN IF rows = <<>>
         THEN [raised |-> "IndexError", rows |-> rows]
         ELSE EmptyInnerLoop_Strict(Tail(rows), nseats)
    ELSE [raised |-> "", rows |-> rows]

\* EMPTY_INNER's loop: while sum(rows[1:]) >= nseats: rows.pop(0).
\* pop(0) of an empty list raises IndexError.
RECURSIVE EmptyInnerLoop(_, _)
EmptyInnerLoop(rows, nseats) ==
    IF Sum(Rest(rows)) >= nseats
    THEN IF rows = <<>>
         THEN [raised |-> "IndexError", rows |-> rows]
         ELSE EmptyInnerLoop(Tail(rows), nseats)
    ELSE [raised |-> "", rows |-> rows]

\* OUTER_PRIORITY's loop: while sum(rows) > nseats: rows.pop(0).
RECURSIVE OuterPriorityLoop(_, _)
OuterPriorityLoop(rows, nseats) ==
    IF Sum(rows) > nseats
    THEN IF rows = <<>>
         THEN [raised |-> "IndexError", rows |-> rows]
         ELSE OuterPriorityLoop(Tail(rows), nseats)
    ELSE [raised |-> "", rows |-> rows]

\* What the match statement leaves: the exception it raised ("" for none),
\* starting_row, filling_ratio as the pair <<dividend, divisor>> of its division and
\* seats_on_starting_row.  A variable the taken branch does not bind is <<>> or -1.
NoStrategy ==
    [raised |-> "", starting_row |-> 0, filling_ratio |-> <<>>,
     seats_on_starting_row |-> -1]

StrategyDefault(nseats, nrows, maxed_rows) ==
    IF Sum(maxed_rows) = 0
    THEN [NoStrategy EXCEPT !.raised = "ZeroDivisionError"]
    ELSE [NoStrategy EXCEPT !.filling_ratio = <<nseats, Sum(maxed_rows)>>]

StrategyEmptyInner(nseats, nrows, maxed_rows) ==
    Let(EmptyInnerLoop(maxed_rows, nseats), LAMBDA left :
        IF left.raised # ""
        THEN [NoStrategy EXCEPT !.raised = left.raised]
        ELSE IF Sum(left.rows) = 0
        THEN [NoStrategy EXCEPT !.raised = "ZeroDivisionError",
                                !.starting_row = nrows - Len(left.rows)]
        ELSE [NoStrategy EXCEPT !.starting_row = nrows - Len(left.rows),
                                !.filling_ratio = <<nseats, Sum(left.rows)>>])

\* A faulty branch: starting_row = nrows-len(rows), which skips the partial row.
StrategyOuterPriority_NoPartialRow(nseats, nrows, maxed_rows) ==
    Let(OuterPriorityLoop(maxed_rows, nseats), LAMBDA left :
        IF left.raised # ""
        THEN [NoStrategy EXCEPT !.raised = left.raised]
        ELSE [NoStrategy EXCEPT !.starting_row = nrows - Len(left.rows),
                                !.seats_on_starting_row = nseats - Sum(left.rows)])

StrategyOuterPriority(nseats, nrows, maxed_rows) ==
    Let(OuterPriorityLoop(maxed_rows, nseats), LAMBDA left :
        IF left.raised # ""
        THEN [NoStrategy EXCEPT !.raised = left.raised]
        ELSE [NoStrategy EXCEPT !.starting_row = nrows - Len(left.rows) - 1,
                                !.seats_on_starting_row = nseats - Sum(left.rows)])

\* A faulty match: a default case that takes the DEFAULT branch.
MatchStrategy_FallsBackToDefault(filling_strategy, nseats, nrows, maxed_rows) ==
    CASE filling_strategy = EMPTY_INNER -> StrategyEmptyInner(nseats, nrows, maxed_rows)
      [] filling_strategy = OUTER_PRIORITY ->
            StrategyOuterPriority(nseats, nrows, maxed_rows)
      [] OTHER -> StrategyDefault(nseats, nrows, maxed_rows)

MatchStrategy(filling_strategy, nseats, nrows, maxed_rows) ==
    CASE filling_strategy = DEFAULT -> StrategyDefault(nseats, nrows, maxed_rows)
      [] filling_strategy = EMPTY_INNER -> StrategyEmptyInner(nseats, nrows, maxed_rows)
      [] filling_strategy = OUTER_PRIORITY ->
            StrategyOuterPriority(nseats, nrows, maxed_rows)
      [] OTHER -> [NoStrategy EXCEPT !.raised = "ValueError"]

\* maxed_rows[r] for a Python index r (a negative r counts from the end).
Item(maxed_rows, r) ==
    IF r < 0 THEN maxed_rows[Len(maxed_rows) + r + 1] ELSE maxed_rows[r + 1]

\* nseats_this_row of row r when placed seats are already in positions.
\* c holds the call's arguments and the locals bound before the loop.
NseatsThisRow(c, r, placed) ==
    IF r = c.nrows - 1
    THEN c.nseats - placed
    ELSE IF c.filling_strategy = OUTER_PRIORITY
    THEN IF r = c.starting_row
         THEN c.seats_on_starting_row
         ELSE Item(c.maxed_rows, r)
    ELSE Round(c.filling_ratio[1] * Item(c.maxed_rows, r), c.filling_ratio[2])

\* An angle of the loop is kept exactly, as the real number
\*     a.pi * math.pi + a.asin * math.asin(a.of)
\* for rationals a.pi, a.asin and a.of; math.asin(0) is 0 and math.asin(1) is pi/2.
Angle(pi, asin, of) ==
    IF asin[1] = 0 \/ of[1] = 0
    THEN [pi |-> pi, asin |-> RInt(0), of |-> RInt(0)]
    ELSE IF of = RInt(1)
    THEN [pi |-> RAdd(pi, RMul(asin, <<1, 2>>)), asin |-> RInt(0), of |-> RInt(0)]
    ELSE [pi |-> pi, asin |-> asin, of |-> of]

\* A faulty margin: none, whatever the span.
SpanAngleMargin_None(span_angle) == Rat(0, 360 + span_angle)

\* span_angle_margin = (1 - span_angle/180)*math.pi/2, as a multiple of pi.
SpanAngleMargin(span_angle) == Rat(180 - span_angle, 360)

\* A faulty angle: angle_increment divides by nseats_this_row.
SeatAngle_DividedByNseats(c, R, s, nseats_this_row) ==
    Let(SpanAngleMargin(c.span_angle), LAMBDA span_angle_margin :
        Angle(RAdd(span_angle_margin,
                   RMul(RInt(s), RDiv(RAdd(RInt(1), RMul(RInt(-2), span_angle_margin)),
                                      RInt(nseats_this_row)))),
              RAdd(RInt(1), RMul(RInt(s), Rat(-2, nseats_this_row))),
              RDiv(c.seat_radius, R)))

\* angle = angle_margin + s*angle_increment for the seat of rank s in a row of radius
\* R that gets nseats_this_row seats, where
\*     angle_margin = math.asin(seat_radius/R) + span_angle_margin
\*     angle_increment = (math.pi - 2*angle_margin) / (nseats_this_row - 1)
SeatAngle(c, R, s, nseats_this_row) ==
    Let(SpanAngleMargin(c.span_angle), LAMBDA span_angle_margin :
        Angle(RAdd(span_angle_margin,
                   RMul(RInt(s), RDiv(RAdd(RInt(1), RMul(RInt(-2), span_angle_margin)),
                                      RInt(nseats_this_row - 1)))),
              RAdd(RInt(1), RMul(RInt(s), Rat(-2, nseats_this_row - 1))),
              RDiv(c.seat_radius, R)))

\* The entries row r adds to positions.  A dict entry is kept as the seat's row, its
\* rank s in the row, the row's nseats_this_row n and the entry's value, angle; its
\* key is (R*cos(angle)+1, R*sin(angle)), and seats of different rank have
\* different angles, so the entries of a row are as many as its seats.  The
\* exception: asin(1) is pi/2, so with seat_radius = R on a 180 degree span
\* angle_increment is 0 and the whole row falls on one key.
RowSeats(c, r, nseats_this_row, R) ==
    IF nseats_this_row = 1
    THEN {[row |-> r, s |-> 0, n |-> 1,
           angle |-> Angle(<<1, 2>>, RInt(0), RInt(0))]}
    ELSE IF c.seat_radius = R /\ c.span_angle = 180
    THEN {[row |-> r, s |-> 0, n |-> nseats_this_row,
           angle |-> SeatAngle(c, R, s, nseats_this_row)] :
             s \in 0..(nseats_this_row - 1)}
    ELSE {[row |-> r, s |-> s, n |-> nseats_this_row,
           angle |-> SeatAngle(c, R, s, nseats_this_row)] :
             s \in 0..(nseats_this_row - 1)}

\* One turn of the for loop, for row r: st holds alloc, the <<row, nseats_this_row>>
\* of every row the loop has reached, and positions.  math.asin raises ValueError
\* outside [-1, 1]; a division by zero raises ZeroDivisionError.
RowStep(c, r, st) ==
    Let(NseatsThisRow(c, r, Cardinality(st.positions)), LAMBDA nseats_this_row :
    Let(RowRadius(r, c.row_thicc), LAMBDA R :
    Let(Append(st.alloc, <<r, nseats_this_row>>), LAMBDA alloc :
        IF R[1] = 0
        THEN [raised |-> "ZeroDivisionError", alloc |-> alloc,
              positions |-> st.positions]
        ELSE IF RLt(RInt(1), RDiv(c.seat_radius, R))
                \/ RLt(RDiv(c.seat_radius, R), RInt(-1))
        THEN [raised |-> "ValueError", alloc |-> alloc, positions |-> st.positions]
        ELSE IF nseats_this_row - 1 = 0
        THEN [raised |-> "ZeroDivisionError", alloc |-> alloc,
              positions |-> st.positions]
        ELSE [raised |-> "", alloc |-> alloc,
              positions |-> st.positions \cup RowSeats(c, r, nseats_this_row, R)])))

\* The for loop over the rows from row r on.
RECURSIVE RowLoop(_, _, _)
RowLoop(c, r, st) ==
    IF r >= c.nrows
    THEN st
    ELSE Let(RowStep(c, r, st), LAMBDA step :
             IF step.raised # "" THEN step ELSE RowLoop(c, r + 1, step))

\* A faulty statement: the row count is taken for the default span, not span_angle.
PlanNrows_DefaultSpan(nseats, min_nrows, span_angle, ncache, rcache) ==
    Let(_cached_get_nrows_from_nseats(nseats, _DEFAULT_SPAN_ANGLE, ncache, rcache),
        LAMBDA got :
        [nrows |-> Max(min_nrows, got.rv), needed_nrows |-> got.rv,
         rows_cache |-> got.rows_cache, nrows_cache |-> got.nrows_cache])

\* nrows = max(min_nrows, _cached_get_nrows_from_nseats(nseats, span_angle)):
\* the row count, the value the cached function returned (needed_nrows) and both
\* caches as the statement leaves them.
PlanNrows(nseats, min_nrows, span_angle, ncache, rcache) ==
    Let(_cached_get_nrows_from_nseats(nseats, span_angle, ncache, rcache), LAMBDA got :
        [nrows |-> Max(min_nrows, got.rv), needed_nrows |-> got.rv,
         rows_cache |-> got.rows_cache, nrows_cache |-> got.nrows_cache])

\* The record of an API call: op and the arguments; raised, the exception that ended
\* it ("" when it returned) and stage, how far it got; rv, the value returned by a
\* row planner function; the locals of get_seats_centers (needed_nrows is the value
\* _cached_get_nrows_from_nseats returned to it); positions, the returned
\* _SeatsCenterContainer, with its attributes attr_seat_radius_factor and attr_nrows;
\* the arguments group_seats and seats of dispatch_seats and warned, whether it
\* emitted a warning; seat_actual_radius, which get_svg_from_attribution hands to
\* the renderer.
NoCall ==
    [op |-> "none", nseats |-> 0, min_nrows |-> 0, filling_strategy |-> "",
     seat_radius_factor |-> <<1, 1>>, span_angle |-> 0, arg_nrows |-> 0,
     raised |-> "", stage |-> "", rv |-> <<>>,
     needed_nrows |-> 0, nrows |-> 0, maxed_rows |-> <<>>, starting_row |-> 0,
     filling_ratio |-> <<>>, seats_on_starting_row |-> -1, alloc |-> <<>>, positions |-> {},
     attr_seat_radius_factor |-> <<>>, attr_nrows |-> 0,
     group_seats |-> <<>>, seats |-> <<>>, warned |-> FALSE,
     seat_actual_radius |-> <<>>,
     color |-> <<>>, from_hex |-> <<>>, scraped |-> <<>>, paths |-> <<>>]

\* The locals the loop reads, from the match statement's m.
LoopContext(nseats, filling_strategy, seat_radius_factor, span_angle, nrows, maxed_rows, m) ==
    Let(_get_row_thickness(nrows), LAMBDA row_thicc :
        [nseats |-> nseats, nrows |-> nrows, filling_strategy |-> filling_strategy,
         span_angle |-> span_angle, maxed_rows |-> maxed_rows,
         row_thicc |-> row_thicc,
         seat_radius |-> RMul(row_thicc, seat_radius_factor),
         starting_row |-> m.starting_row, filling_ratio |-> m.filling_ratio,
         seats_on_starting_row |-> m.seats_on_starting_row])

get_seats_centers(nseats, min_nrows, filling_strategy, seat_radius_factor, span_angle, ncache, rcache) ==
    Let(PlanNrows(nseats, min_nrows, span_angle, ncache, rcache), LAMBDA plan :
    Let(_cached_get_rows_from_nrows(plan.rows_cache, plan.nrows, span_angle),
        LAMBDA maxed_rows :
    Let(MatchStrategy(filling_strategy, nseats, plan.nrows, maxed_rows), LAMBDA m :
    Let(IF m.raised # ""
        THEN [raised |-> m.raised, alloc |-> <<>>, positions |-> {}]
        ELSE RowLoop(LoopContext(nseats, filling_strategy, seat_radius_factor,
                                 span_angle, plan.nrows, maxed_rows, m),
                     m.starting_row,
                     [raised |-> "", alloc |-> <<>>, positions |-> {}]),
        LAMBDA loop :
        [rows_cache |-> Memoize(plan.rows_cache, <<plan.nrows, span_angle>>, maxed_rows),
         nrows_cache |-> plan.nrows_cache,
         call |->
           [NoCall EXCEPT
              !.op = "get_seats_centers", !.nseats = nseats, !.min_nrows = min_nrows,
              !.filling_strategy = filling_strategy,
              !.seat_radius_factor = seat_radius_factor, !.span_angle = span_angle,
              !.raised = loop.raised,
              !.stage = IF m.raised # "" THEN "match"
                        ELSE IF loop.raised # "" THEN "loop" ELSE "return",
              !.needed_nrows = plan.needed_nrows,
              !.nrows = plan.nrows, !.maxed_rows = maxed_rows,
              !.starting_row = m.starting_row, !.filling_ratio = m.filling_ratio,
              !.seats_on_starting_row = m.seats_on_starting_row,
              !.alloc = loop.alloc,
              !.positions = IF loop.raised = "" THEN loop.positions ELSE {},
              !.attr_seat_radius_factor =
                  IF loop.raised = "" THEN seat_radius_factor ELSE <<>>,
              !.attr_nrows = IF loop.raised = "" THEN plan.nrows ELSE 0]]))))

\* ------------------------------------------------------------ svg.dispatch_seats
\* A faulty loop, written first: every group is served from the start of seats, as
\* if iter(seats) were called anew for each group.  Then the loop itself.
\* The for loop of dispatch_seats over the items of group_seats (a dict, kept as the
\* sequence of its <<group, nseats>> items): its is the rest of the iterator, rv the
\* dict built so far, as the sequence of its <<group, list>> items.  next(its) on an
\* exhausted iterator raises StopIteration; range of a negative number is empty.
RECURSIVE DispatchLoop_Restart(_, _, _)
DispatchLoop_Restart(items, its, rv) ==
    IF items = <<>>
    THEN [raised |-> "", rv |-> rv, its |-> its]
    ELSE Let(Max(Head(items)[2], 0), LAMBDA n :
             IF Len(its) < n
             THEN [raised |-> "StopIteration", rv |-> <<>>, its |-> <<>>]
             ELSE DispatchLoop_Restart(Tail(items), its,
                                       Append(rv, <<Head(items)[1], SubSeq(its, 1, n)>>)))

RECURSIVE DispatchLoop(_, _, _)
DispatchLoop(items, its, rv) ==
    IF items = <<>>
    THEN [raised |-> "", rv |-> rv, its |-> its]
    ELSE Let(Max(Head(items)[2], 0), LAMBDA n :
             IF Len(its) < n
             THEN [raised |-> "StopIteration", rv |-> <<>>, its |-> <<>>]
             ELSE DispatchLoop(Tail(items), SubSeq(its, n + 1, Len(its)),
                               Append(rv, <<Head(items)[1], SubSeq(its, 1, n)>>)))

\* A faulty dispatch_seats: it never warns.
dispatch_seats_Silent(group_seats, seats) ==
    Let(DispatchLoop(group_seats, seats, <<>>), LAMBDA done :
        [raised |-> done.raised, rv |-> done.rv, warned |-> FALSE])

\* dispatch_seats(group_seats, seats): the exception raised, the dict returned and
\* whether warnings.warn was called.
dispatch_seats(group_seats, seats) ==
    Let(DispatchLoop(group_seats, seats, <<>>), LAMBDA done :
        [raised |-> done.raised, rv |-> done.rv,
         warned |-> done.raised = "" /\ done.its # <<>>])

\* ------------------------------------------- the package's get_svg_from_attribution
\* A float: the real x kept as the integer floor(x * 10000).
Float(q) == (q[1] * 10000) \div q[2]

\* math.asin(x) for a float 0 <= x <= 1, by the series
\* x + x^3/6 + 3x^5/40 + 15x^7/336 + 35x^9/1152.
MathAsin(x) ==
    LET x2 == (x * x) \div 10000
        x3 == (x * x2) \div 10000
        x5 == (x3 * x2) \div 10000
        x7 == (x5 * x2) \div 10000
        x9 == (x7 * x2) \div 10000
    IN x + x3 \div 6 + (3 * x5) \div 40 + (15 * x7) \div 336 + (35 * x9) \div 1152

\* The float results[key] holds for the entry p of positions.
AngleValue(p) ==
    (p.angle.pi[1] * Float(<<PiLoNum, PiLoDen>>)) \div p.angle.pi[2]
        + (p.angle.asin[1] * MathAsin(Float(p.angle.of))) \div p.angle.asin[2]

\* The keys of the dict positions in the order they were inserted: row by row, and
\* by rank within a row.
RECURSIVE InsertionOrder(_)
InsertionOrder(positions) ==
    IF positions = {} THEN <<>>
    ELSE Let(CHOOSE p \in positions :
                 \A q \in positions :
                     p.row < q.row \/ (p.row = q.row /\ p.s <= q.s),
             LAMBDA first : <<first>> \o InsertionOrder(positions \ {first}))

\* A faulty sort: reverse=True is left out, so angles ascend.
RECURSIVE SortedReverse_Ascending(_)
SortedReverse_Ascending(seq) ==
    IF seq = <<>> THEN <<>>
    ELSE Let(SortedReverse_Ascending(SubSeq(seq, 1, Len(seq) - 1)), LAMBDA done :
         Let(seq[Len(seq)], LAMBDA x :
         Let(Cardinality({i \in 1..Len(done) : AngleValue(done[i]) <= AngleValue(x)}),
             LAMBDA k :
             SubSeq(done, 1, k) \o <<x>> \o SubSeq(done, k + 1, Len(done)))))

\* sorted(seq, key=results.__getitem__, reverse=True): by descending angle, entries
\* of equal angle staying in the order of seq (the sort is stable).
RECURSIVE SortedReverse(_)
SortedReverse(seq) ==
    IF seq = <<>> THEN <<>>
    ELSE Let(SortedReverse(SubSeq(seq, 1, Len(seq) - 1)), LAMBDA done :
         Let(seq[Len(seq)], LAMBDA x :
         Let(Cardinality({i \in 1..Len(done) : AngleValue(done[i]) >= AngleValue(x)}),
             LAMBDA k :
             SubSeq(done, 1, k) \o <<x>> \o SubSeq(done, k + 1, Len(done)))))

\* seat_actual_radius = seat_radius_factor
\*                          * get_row_thickness(get_nrows_from_nseats(nseats)),
\* and rows_cache as the statement leaves it.  results is what get_seats_centers
\* returned; get_row_thickness is geometry's _get_row_thickness.
SeatActualRadius(results, nseats, seat_radius_factor) ==
    Let(get_nrows_from_nseats(nseats, _DEFAULT_SPAN_ANGLE, results.rows_cache),
        LAMBDA got :
        [seat_actual_radius |-> RMul(seat_radius_factor, _get_row_thickness(got.rv)),
         rows_cache |-> got.rows_cache])

\* get_svg_from_attribution(attrib, seat_radius_factor=..., **kwargs) where kwargs
\* holds min_nrows, filling_strategy and span_angle: seat_radius_factor is a
\* parameter of its own, so get_seats_centers is called without it.  The call
\* record keeps the list passed to dispatch_seats (seats), the dict it returned
\* (rv) and seat_actual_radius, which go to get_grouped_svg.
get_svg_from_attribution(attrib, seat_radius_factor, min_nrows, filling_strategy, span_angle, ncache, rcache) ==
    Let(Sum([i \in 1..Len(attrib) |-> attrib[i][2]]), LAMBDA nseats :
    Let(get_seats_centers(nseats, min_nrows, filling_strategy, RInt(1), span_angle,
                          ncache, rcache), LAMBDA results :
    Let([results.call EXCEPT !.op = "get_svg_from_attribution",
                             !.group_seats = attrib,
                             !.seat_radius_factor = seat_radius_factor],
        LAMBDA entered :
        IF results.call.raised # ""
        THEN [rows_cache |-> results.rows_cache, nrows_cache |-> results.nrows_cache,
              call |-> entered]
        ELSE Let(SortedReverse(InsertionOrder(results.call.positions)), LAMBDA seats :
             Let(dispatch_seats(attrib, seats), LAMBDA seat_centers_by_group :
                 IF seat_centers_by_group.raised # ""
                 THEN [rows_cache |-> results.rows_cache,
                       nrows_cache |-> results.nrows_cache,
                       call |-> [entered EXCEPT
                                   !.seats = seats, !.stage = "dispatch",
                                   !.raised = seat_centers_by_group.raised]]
                 ELSE Let(SeatActualRadius(results, nseats, seat_radius_factor),
                          LAMBDA radius :
                          [rows_cache |-> radius.rows_cache,
                           nrows_cache |-> results.nrows_cache,
                           call |-> [entered EXCEPT
                                       !.seats = seats,
                                       !.rv = seat_centers_by_group.rv,
                                       !.warned = seat_centers_by_group.warned,
                                       !.seat_actual_radius =
                                           radius.seat_actual_radius]]))))))

\* ------------------------------------ the legacy module (src/__init__.py)
\* The legacy get_seats_centers keeps positions as a list of (angle, x, y) tuples,
\* so every seat of a row is an entry of its own.
LegacyRowSeats(c, r, nseats_this_row, R) ==
    IF nseats_this_row = 1
    THEN {[row |-> r, s |-> 0, n |-> 1,
           angle |-> Angle(<<1, 2>>, RInt(0), RInt(0))]}
    ELSE {[row |-> r, s |-> s, n |-> nseats_this_row,
           angle |-> SeatAngle(c, R, s, nseats_this_row)] :
             s \in 0..(nseats_this_row - 1)}

\* One turn of the legacy for loop, for row r.
LegacyRowStep(c, r, st) ==
    Let(NseatsThisRow(c, r, Cardinality(st.positions)), LAMBDA nseats_this_row :
    Let(RowRadius(r, c.row_thicc), LAMBDA R :
    Let(Append(st.alloc, <<r, nseats_this_row>>), LAMBDA alloc :
        IF R[1] = 0
        THEN [raised |-> "ZeroDivisionError", alloc |-> alloc,
              positions |-> st.positions]
        ELSE IF RLt(RInt(1), RDiv(c.seat_radius, R))
                \/ RLt(RDiv(c.seat_radius, R), RInt(-1))
        THEN [raised |-> "ValueError", alloc |-> alloc, positions |-> st.positions]
        ELSE IF nseats_this_row - 1 = 0
        THEN [raised |-> "ZeroDivisionError", alloc |-> alloc,
              positions |-> st.positions]
        ELSE [raised |-> "", alloc |-> alloc,
              positions |-> st.positions
                              \cup LegacyRowSeats(c, r, nseats_this_row, R)])))

\* The legacy for loop over the rows from row r on.
RECURSIVE LegacyRowLoop(_, _, _)
LegacyRowLoop(c, r, st) ==
    IF r >= c.nrows
    THEN st
    ELSE Let(LegacyRowStep(c, r, st), LAMBDA step :
             IF step.raised # "" THEN step ELSE LegacyRowLoop(c, r + 1, step))

\* positions.sort(reverse=True) on the (angle, x, y) tuples: the lists it can leave.
\* Tuples of different angle are in descending order of angle.  Angles that are
\* equal as real numbers (the middle seats of several rows) are floats that may
\* differ in their last bit, so such tuples can come out in any order.
RECURSIVE ListSortReverse(_)
ListSortReverse(positions) ==
    IF positions = {} THEN {<<>>}
    ELSE UNION {{<<p>> \o rest : rest \in ListSortReverse(positions \ {p})} :
                   p \in {x \in positions :
                             \A y \in positions : AngleValue(x) >= AngleValue(y)}}

\* The legacy get_seats_centers: nrows comes from _cached_nrows_from_nseats, a
\* FactoryDict of get_nrows_from_nseats(nseats), which counts the rows for the
\* default span; the rest is the code of the package's function, up to the sort
\* of the list, which is left to the action.  In a process that runs the legacy module,
\* nrows_cache and rows_cache are its _cached_nrows_from_nseats and the cache of
\* its _cached_get_rows_from_nrows.
legacy_get_seats_centers(nseats, min_nrows, filling_strategy, seat_radius_factor, span_angle, ncache, rcache) ==
    Let(PlanNrows(nseats, min_nrows, _DEFAULT_SPAN_ANGLE, ncache, rcache), LAMBDA plan :
    Let(_cached_get_rows_from_nrows(plan.rows_cache, plan.nrows, span_angle),
        LAMBDA maxed_rows :
    Let(MatchStrategy(filling_strategy, nseats, plan.nrows, maxed_rows), LAMBDA m :
    Let(IF m.raised # ""
        THEN [raised |-> m.raised, alloc |-> <<>>, positions |-> {}]
        ELSE LegacyRowLoop(LoopContext(nseats, filling_strategy, seat_radius_factor,
                                       span_angle, plan.nrows, maxed_rows, m),
                           m.starting_row,
                           [raised |-> "", alloc |-> <<>>, positions |-> {}]),
        LAMBDA loop :
        [rows_cache |-> Memoize(plan.rows_cache, <<plan.nrows, span_angle>>, maxed_rows),
         nrows_cache |-> plan.nrows_cache,
         call |->
           [NoCall EXCEPT
              !.op = "legacy_get_seats_centers", !.nseats = nseats,
              !.min_nrows = min_nrows, !.filling_strategy = filling_strategy,
              !.seat_radius_factor = seat_radius_factor, !.span_angle = span_angle,
              !.raised = loop.raised,
              !.stage = IF m.raised # "" THEN "match"
                        ELSE IF loop.raised # "" THEN "loop" ELSE "return",
              !.needed_nrows = plan.needed_nrows,
              !.nrows = plan.nrows, !.maxed_rows = maxed_rows,
              !.starting_row = m.starting_row, !.filling_ratio = m.filling_ratio,
              !.seats_on_starting_row = m.seats_on_starting_row,
              !.alloc = loop.alloc,
              !.positions = IF loop.raised = "" THEN loop.positions ELSE {}]]))))

\* ------------------------------------ french/scrape.py: the colours of a scrape
\* A str is kept as the sequence of its characters.
HexDigits == <<"0", "1", "2", "3", "4", "5", "6", "7", "8", "9",
               "a", "b", "c", "d", "e", "f">>
UpperHexDigits == <<"0", "1", "2", "3", "4", "5", "6", "7", "8", "9",
                    "A", "B", "C", "D", "E", "F">>
HexChars == {HexDigits[i] : i \in 1..16} \cup {UpperHexDigits[i] : i \in 1..16}

\* format(n, "x") for n >= 0: the hexadecimal digits of n, as many as it takes.
RECURSIVE FormatHex(_)
FormatHex(n) ==
    IF n < 16 THEN <<HexDigits[n + 1]>>
    ELSE FormatHex(n \div 16) \o <<HexDigits[(n % 16) + 1]>>

\* f"{n:2x}": the digits right-aligned in a field of width 2, filled with spaces.
Format2x(n) ==
    IF Len(FormatHex(n)) < 2 THEN <<" ">> \o FormatHex(n) ELSE FormatHex(n)

\* A value of the dataclass Color; None; a str.
Color(r, g, b, a) == [type |-> "Color", r |-> r, g |-> g, b |-> b, a |-> a]
None == [type |-> "NoneType"]
Str(s) == [type |-> "str", s |-> s]

\* Color.__str__.
Color__str__(self) ==
    <<"#">> \o Format2x(self.r) \o Format2x(self.g) \o Format2x(self.b)
        \o (IF self.a # 255 THEN Format2x(self.a) ELSE <<>>)

\* s without the spaces at its two ends.
RECURSIVE Strip(_)
Strip(s) ==
    IF s = <<>> THEN s
    ELSE IF Head(s) = " " THEN Strip(Tail(s))
    ELSE IF s[Len(s)] = " " THEN Strip(SubSeq(s, 1, Len(s) - 1))
    ELSE s

\* The number hexadecimal digits stand for, most significant first.
RECURSIVE HexNumber(_)
HexNumber(s) ==
    IF s = <<>> THEN 0
    ELSE 16 * HexNumber(SubSeq(s, 1, Len(s) - 1))
           + (CHOOSE v \in 0..15 :
                  s[Len(s)] = HexDigits[v + 1] \/ s[Len(s)] = UpperHexDigits[v + 1])

\* int(s, 16) for a str of hexadecimal digits and spaces: the spaces around the
\* digits are ignored; no digit, or a space among them, is a ValueError.
IntBase16(s) ==
    IF Strip(s) # <<>> /\ \A i \in 1..Len(Strip(s)) : Strip(s)[i] \in HexChars
    THEN [raised |-> "", value |-> HexNumber(Strip(s))]
    ELSE [raised |-> "ValueError", value |-> 0]

\* Color(*components) of the components int(..., 16) returned, times scale, or the
\* ValueError one of them raised; a is 255 when there is no fourth component.
ColorOfParts(parts, scale) ==
    IF \E i \in 1..Len(parts) : parts[i].raised # ""
    THEN [raised |-> "ValueError", rv |-> None]
    ELSE [raised |-> "",
          rv |-> Color(parts[1].value * scale, parts[2].value * scale,
                       parts[3].value * scale,
                       IF Len(parts) = 4 THEN parts[4].value * scale ELSE 255)]

\* hex.removeprefix("#").
RemovePrefix(hex) == IF hex # <<>> /\ Head(hex) = "#" THEN Tail(hex) ELSE hex

\* Color.from_hex: the match statement has no case for another length, and r is
\* then unbound at the return statement.
Color_from_hex(hex) ==
    Let(RemovePrefix(hex), LAMBDA h :
        CASE Len(h) = 6 ->
                ColorOfParts(<<IntBase16(SubSeq(h, 1, 2)), IntBase16(SubSeq(h, 3, 4)),
                               IntBase16(SubSeq(h, 5, 6))>>, 1)
          [] Len(h) = 8 ->
                ColorOfParts(<<IntBase16(SubSeq(h, 1, 2)), IntBase16(SubSeq(h, 3, 4)),
                               IntBase16(SubSeq(h, 5, 6)), IntBase16(SubSeq(h, 7, 8))>>, 1)
          [] Len(h) = 3 ->
                ColorOfParts(<<IntBase16(<<h[1]>>), IntBase16(<<h[2]>>),
                               IntBase16(<<h[3]>>)>>, 17)
          [] Len(h) = 4 ->
                ColorOfParts(<<IntBase16(<<h[1]>>), IntBase16(<<h[2]>>),
                               IntBase16(<<h[3]>>), IntBase16(<<h[4]>>)>>, 17)
          [] OTHER -> [raised |-> "UnboundLocalError", rv |-> None])

\* re.fullmatch(r"#([\da-fA-F]{3,8})", v.strip()) of scrape_svg.
MatchesHexPattern(v) ==
    Let(Strip(v), LAMBDA c :
        /\ Len(c) \in 4..9
        /\ c[1] = "#"
        /\ \A i \in 2..Len(c) : c[i] \in HexChars)

\* What scrape_svg makes of the str v it reads as an attribute of a path: the
\* Color of a hexadecimal colour of 3, 4, 6 or 8 digits, and v itself otherwise.
ScrapedValue(v) ==
    IF MatchesHexPattern(v) /\ Len(Strip(v)) \in {4, 5, 7, 9}
    THEN Color_from_hex(Strip(v)).rv
    ELSE Str(v)

\* ------------------------------- french/organize.py: the seats of a scrape
DecDigits == <<"0", "1", "2", "3", "4", "5", "6", "7", "8", "9">>

\* str(i) for i >= 0.
RECURSIVE FormatDec(_)
FormatDec(i) ==
    IF i < 10 THEN <<DecDigits[i + 1]>>
    ELSE FormatDec(i \div 10) \o <<DecDigits[(i % 10) + 1]>>

\* f"p{i}".
SeatKey(i) == <<"p">> \o FormatDec(i)

\* re.fullmatch(r"p(\d+)", key).
MatchesSeatKey(key) ==
    /\ Len(key) >= 2
    /\ key[1] = "p"
    /\ \A i \in 2..Len(key) : \E v \in 1..10 : key[i] = DecDigits[v]

\* int(digits) for a str of decimal digits.
RECURSIVE IntBase10(_)
IntBase10(digits) ==
    IF digits = <<>> THEN 0
    ELSE 10 * IntBase10(SubSeq(digits, 1, Len(digits) - 1))
           + (CHOOSE v \in 0..9 : digits[Len(digits)] = DecDigits[v + 1])

\* The largest number of a set of numbers that is not empty.
MaxOf(numbers) == CHOOSE n \in numbers : \A m \in numbers : m <= n

\* The dict d without key k.
Without(d, k) == [x \in (DOMAIN d) \ {k} |-> d[x]]

\* The for loop of pop_seats from i on: out is what was yielded so far, paths the
\* dict as the pops left it.
RECURSIVE PopSeatsLoop(_, _, _, _, _, _, _)
PopSeatsLoop(i, mx, paths, pop, yield_nones, nones, out) ==
    IF i >= mx THEN [raised |-> "", yielded |-> out, paths |-> paths]
    ELSE IF SeatKey(i) \notin DOMAIN paths
    THEN PopSeatsLoop(i + 1, mx, paths, pop, yield_nones, nones + 1, out)
    ELSE PopSeatsLoop(i + 1, mx,
                      IF pop THEN Without(paths, SeatKey(i)) ELSE paths,
                      pop, yield_nones, 0,
                      out \o (IF yield_nones THEN [j \in 1..nones |-> None] ELSE <<>>)
                          \o <<paths[SeatKey(i)]>>)

\* A faulty generator: the seats that are missing are never yielded as None.
pop_seats_NoNones(paths, pop, yield_nones) ==
    LET numbers == {IntBase10(Tail(key)) : key \in {k \in DOMAIN paths : MatchesSeatKey(k)}}
    IN  IF numbers = {}
        THEN [raised |-> "ValueError", yielded |-> <<>>, paths |-> paths]
        ELSE PopSeatsLoop(0, MaxOf(numbers) + 1, paths, pop, FALSE, 0, <<>>)

\* Scraped.pop_seats, run to its end: max() of no seat number is a ValueError.
pop_seats(paths, pop, yield_nones) ==
    LET numbers == {IntBase10(Tail(key)) : key \in {k \in DOMAIN paths : MatchesSeatKey(k)}}
    IN  IF numbers = {}
        THEN [raised |-> "ValueError", yielded |-> <<>>, paths |-> paths]
        ELSE PopSeatsLoop(0, MaxOf(numbers) + 1, paths, pop, yield_nones, 0, <<>>)

\* str(color) for a fill that is a Color or a str.
StrOfFill(fill) == IF fill.type = "Color" THEN Str(Color__str__(fill)) ELSE fill

\* The for loop of from_scraped over enumerate(seats_it), from the item of index
\* i - 1 on; st holds seats_dict, grouped_seats, color_groups and what is left of
\* group_ids_it.
RECURSIVE FromScrapedLoop(_, _, _)
FromScrapedLoop(seats, i, st) ==
    IF i > Len(seats) THEN st
    ELSE IF seats[i] = None THEN FromScrapedLoop(seats, i + 1, st)
    ELSE
    Let(IF seats[i].fill = None THEN None ELSE StrOfFill(seats[i].fill), LAMBDA color :
    Let((i - 1) :> [seats[i] EXCEPT !.fill = None] @@ st.seats_dict, LAMBDA seats_dict :
        IF color \in DOMAIN st.color_groups
        THEN FromScrapedLoop(seats, i + 1,
                 [st EXCEPT !.seats_dict = seats_dict,
                            !.grouped_seats[st.color_groups[color]] = Append(@, i - 1)])
        ELSE IF st.group_ids_it = <<>>
        THEN [st EXCEPT !.raised = "StopIteration", !.seats_dict = seats_dict]
        ELSE FromScrapedLoop(seats, i + 1,
                 [st EXCEPT !.seats_dict = seats_dict,
                            !.group_ids_it = Tail(@),
                            !.color_groups = color :> Head(st.group_ids_it) @@ @,
                            !.grouped_seats =
                                Head(st.group_ids_it) :> <<i - 1>> @@ @])))

\* Organized.from_scraped(scraped) with no group_ids: the groups are numbered as
\* range(len(scraped.paths)).  scraped_paths is scraped.paths.
from_scraped(scraped_paths) ==
    Let(pop_seats(scraped_paths, TRUE, TRUE), LAMBDA popped :
        IF popped.raised # ""
        THEN [raised |-> popped.raised, rv |-> <<>>]
        ELSE Let(FromScrapedLoop(popped.yielded, 1,
                     [raised |-> "", seats_dict |-> <<>>, grouped_seats |-> <<>>,
                      color_groups |-> <<>>,
                      group_ids_it |->
                          [j \in 1..Cardinality(DOMAIN scraped_paths) |-> j - 1]]),
                 LAMBDA st :
                 IF st.raised # ""
                 THEN [raised |-> st.raised, rv |-> <<>>]
                 ELSE [raised |-> "",
                       rv |-> [structural_paths |-> popped.paths,
                               seats |-> st.seats_dict,
                               grouped_seats |-> st.grouped_seats,
                               group_colors |->
                                   [g \in {st.color_groups[c] : c \in DOMAIN st.color_groups}
                                      |-> CHOOSE c \in DOMAIN st.color_groups :
                                              st.color_groups[c] = g]]]))

\* ------------------------------------------------------------- the actions
\* The calls a fresh process is given.
GetRowsFromNrowsCalls ==
    {[NoCall EXCEPT !.op = "get_rows_from_nrows", !.arg_nrows = n, !.span_angle = a] :
        n \in 1..(MaxMinRows + 1), a \in Spans}

GetNrowsFromNseatsCalls ==
    {[NoCall EXCEPT !.op = "get_nrows_from_nseats", !.nseats = n, !.span_angle = a] :
        n \in SeatCounts, a \in Spans}

GetSeatsCentersCalls ==
    {[NoCall EXCEPT !.op = "get_seats_centers", !.nseats = n, !.min_nrows = m,
                    !.filling_strategy = f, !.seat_radius_factor = q,
                    !.span_angle = a] :
        n \in SeatCounts, m \in MinRows, f \in Strategies,
        q \in SeatRadiusFactors, a \in Spans}

\* dispatch_seats is given up to three groups, in any order, and any short list of
\* seats; a seat is any value, here a number.
Groups == {"a", "b", "c"}

GroupSeats ==
    UNION {{gs \in [1..k -> Groups \X (0..MaxGroupSeats)] :
               \A i, j \in 1..k : i # j => gs[i][1] # gs[j][1]} : k \in 0..3}

SeatLists == UNION {[1..k -> 1..2] : k \in 0..MaxDispatchSeats}

DispatchSeatsCalls ==
    {[NoCall EXCEPT !.op = "dispatch_seats", !.group_seats = gs, !.seats = seats] :
        gs \in GroupSeats, seats \in SeatLists}

\* get_svg_from_attribution is given two groups that share nseats seats.
GetSvgFromAttributionCalls ==
    {[NoCall EXCEPT !.op = "get_svg_from_attribution",
                    !.group_seats = << <<"a", n - (n \div 3)>>, <<"b", n \div 3>> >>,
                    !.nseats = n, !.min_nrows = m, !.filling_strategy = f,
                    !.seat_radius_factor = q, !.span_angle = a] :
        n \in SeatCounts, m \in MinRows, f \in Strategies,
        q \in SeatRadiusFactors, a \in Spans}

\* Calls with a span_angle above 180 degrees, which the docstring of
\* get_seats_centers calls unsupported.
WideSpans == {270}

WideSpanCalls ==
    {[c EXCEPT !.span_angle = a] :
        c \in GetRowsFromNrowsCalls \cup GetNrowsFromNseatsCalls
                  \cup GetSeatsCentersCalls,
        a \in WideSpans}

\* Calls of get_seats_centers with a seat_radius_factor outside [0, 1], the range
\* its docstring asks for: 3/2 and 4.
WideSeatRadiusFactors == {<<3, 2>>, <<4, 1>>}

WideFactorCalls ==
    {[NoCall EXCEPT !.op = "get_seats_centers", !.nseats = n,
                    !.filling_strategy = f, !.seat_radius_factor = q,
                    !.span_angle = _DEFAULT_SPAN_ANGLE] :
        n \in SeatCounts, f \in FillingStrategy, q \in WideSeatRadiusFactors}

\* The calls to the legacy module's get_seats_centers.
LegacyGetSeatsCentersCalls ==
    {[NoCall EXCEPT !.op = "legacy_get_seats_centers", !.nseats = n, !.min_nrows = m,
                    !.filling_strategy = f, !.seat_radius_factor = q,
                    !.span_angle = a] :
        n \in SeatCounts, m \in MinRows, f \in Strategies,
        q \in SeatRadiusFactors, a \in Spans}

\* The colours whose str is asked for.
ColorComponents == {0, 10, 171, 255}
Alphas == {0, 128, 255}

ColorStrCalls ==
    {[NoCall EXCEPT !.op = "Color.__str__", !.color = Color(r, g, b, a)] :
        r \in ColorComponents, g \in ColorComponents, b \in ColorComponents,
        a \in Alphas}

\* The scrapes that are organized: the paths of the seats p0 to p<MaxSeatNumber>,
\* each of them there or not, with a fill that is a Color, a str or None; a path
\* identified as p01; the path of the perchoir.  A path keeps its identifier as id.
SeatFills == {None, Color(255, 0, 0, 255), Color(0, 10, 0, 128), Str(<<"r", "e", "d">>)}
Absent == [type |-> "absent"]
Perchoir == <<"p", "e", "r", "c", "h", "o", "i", "r">>
OtherKeys == {<<"p", "0", "1">>, Perchoir}

Scraped_Path(id, fill) == [d |-> <<"M">> \o id, id |-> id, fill |-> fill]

ScrapedPaths ==
    {[key \in {SeatKey(i) : i \in {n \in 0..MaxSeatNumber : fills[n] # Absent}} \cup others
        |-> IF key \in others THEN Scraped_Path(key, Color(255, 0, 0, 255))
            ELSE Scraped_Path(key, fills[IntBase10(Tail(key))])] :
        fills \in [0..MaxSeatNumber -> SeatFills \cup {Absent}],
        others \in SUBSET OtherKeys}

FromScrapedCalls ==
    {[NoCall EXCEPT !.op = "Organized.from_scraped", !.paths = paths] :
        paths \in ScrapedPaths}

\* Calls for the seats of a large assembly: diagrams of eight rows, nearly full.
LargeSeatCounts == {219, 266}

LargeCalls ==
    {[NoCall EXCEPT !.op = "get_seats_centers", !.nseats = n,
                    !.filling_strategy = f,
                    !.span_angle = _DEFAULT_SPAN_ANGLE] :
        n \in LargeSeatCounts, f \in FillingStrategy}

Calls ==
    GetRowsFromNrowsCalls \cup GetNrowsFromNseatsCalls \cup GetSeatsCentersCalls
        \cup DispatchSeatsCalls \cup GetSvgFromAttributionCalls
        \cup LegacyGetSeatsCentersCalls \cup WideSpanCalls \cup WideFactorCalls
        \cup LargeCalls \cup ColorStrCalls \cup FromScrapedCalls

\* A fresh process (both caches empty) that is given one call.
Init ==
    /\ rows_cache = EmptyCache
    /\ nrows_cache = EmptyCache
    /\ call \in Calls
    /\ last = NoCall
    /\ ncalls = 1

\* The public get_rows_from_nrows: pure, no cache involved.
GetRowsFromNrows ==
    /\ call.op = "get_rows_from_nrows"
    /\ last' = [call EXCEPT !.stage = "return",
                            !.rv = get_rows_from_nrows(call.arg_nrows, call.span_angle)]
    /\ call' = NoCall
    /\ UNCHANGED <<rows_cache, nrows_cache, ncalls>>

\* The public get_nrows_from_nseats: it memoizes the rows it asks for.
GetNrowsFromNseats ==
    /\ call.op = "get_nrows_from_nseats"
    /\ \E got \in {get_nrows_from_nseats(call.nseats, call.span_angle, rows_cache)} :
          /\ last' = [call EXCEPT !.stage = "return", !.rv = got.rv]
          /\ rows_cache' = got.rows_cache
    /\ call' = NoCall
    /\ UNCHANGED <<nrows_cache, ncalls>>

\* get_seats_centers.
GetSeatsCenters ==
    /\ call.op = "get_seats_centers"
    /\ \E out \in {get_seats_centers(call.nseats, call.min_nrows,
                                       call.filling_strategy, call.seat_radius_factor,
                                       call.span_angle, nrows_cache, rows_cache)} :
          /\ last' = out.call
          /\ rows_cache' = out.rows_cache
          /\ nrows_cache' = out.nrows_cache
    /\ call' = NoCall
    /\ UNCHANGED ncalls

\* dispatch_seats.
DispatchSeats ==
    /\ call.op = "dispatch_seats"
    /\ \E out \in {dispatch_seats(call.group_seats, call.seats)} :
          last' = [call EXCEPT !.stage = IF out.raised = "" THEN "return" ELSE "loop",
                               !.raised = out.raised, !.rv = out.rv,
                               !.warned = out.warned]
    /\ call' = NoCall
    /\ UNCHANGED <<rows_cache, nrows_cache, ncalls>>

\* get_svg_from_attribution.
GetSvgFromAttribution ==
    /\ call.op = "get_svg_from_attribution"
    /\ \E out \in {get_svg_from_attribution(call.group_seats, call.seat_radius_factor,
                                              call.min_nrows, call.filling_strategy,
                                              call.span_angle, nrows_cache,
                                              rows_cache)} :
          /\ last' = out.call
          /\ rows_cache' = out.rows_cache
          /\ nrows_cache' = out.nrows_cache
    /\ call' = NoCall
    /\ UNCHANGED ncalls

\* The legacy module's get_seats_centers, which returns the sorted list (rv).
LegacyGetSeatsCenters ==
    /\ call.op = "legacy_get_seats_centers"
    /\ \E out \in {legacy_get_seats_centers(call.nseats, call.min_nrows,
                                              call.filling_strategy,
                                              call.seat_radius_factor, call.span_angle,
                                              nrows_cache, rows_cache)} :
          /\ \E rv \in ListSortReverse(out.call.positions) :
                last' = [out.call EXCEPT !.rv = rv]
          /\ rows_cache' = out.rows_cache
          /\ nrows_cache' = out.nrows_cache
    /\ call' = NoCall
    /\ UNCHANGED ncalls

\* str(color), and what becomes of the str in Color.from_hex and in scrape_svg.
ColorStr ==
    /\ call.op = "Color.__str__"
    /\ last' = [call EXCEPT !.stage = "return",
                            !.rv = Color__str__(call.color),
                            !.from_hex = Color_from_hex(Color__str__(call.color)),
                            !.scraped = ScrapedValue(Color__str__(call.color))]
    /\ call' = NoCall
    /\ UNCHANGED <<rows_cache, nrows_cache, ncalls>>

\* Organized.from_scraped(scraped).
FromScraped ==
    /\ call.op = "Organized.from_scraped"
    /\ \E out \in {from_scraped(call.paths)} :
          last' = [call EXCEPT !.stage = "return", !.raised = out.raised,
                               !.rv = out.rv]
    /\ call' = NoCall
    /\ UNCHANGED <<rows_cache, nrows_cache, ncalls>>

Next ==
    \/ FromScraped
    \/ ColorStr
    \/ LegacyGetSeatsCenters
    \/ GetRowsFromNrows
    \/ GetNrowsFromNseats
    \/ GetSeatsCenters
    \/ DispatchSeats
    \/ GetSvgFromAttribution

Spec == Init /\ [][Next]_vars

\* ------------------------------------------------- a process making several calls
\* The calls made one after the other in a process whose caches fill up.
WarmSeatCounts == {2, MaxSeats - 4, MaxSeats}
WarmSpans == {_DEFAULT_SPAN_ANGLE, 90}

WarmCalls ==
    {c \in Calls :
        /\ c.op \in {"get_rows_from_nrows", "get_nrows_from_nseats", "get_seats_centers"}
        /\ c.span_angle \in WarmSpans
        /\ c.op = "get_rows_from_nrows" \/ c.nseats \in WarmSeatCounts
        /\ c.arg_nrows \in {0, MaxMinRows + 1}
        /\ c.filling_strategy \in {"", DEFAULT, "bogus"}
        /\ c.seat_radius_factor = <<1, 1>>}

InitWarm ==
    /\ rows_cache = EmptyCache
    /\ nrows_cache = EmptyCache
    /\ call = NoCall
    /\ last = NoCall
    /\ ncalls = 0

\* The caller makes the next call.
Invoke ==
    /\ call = NoCall
    /\ ncalls < MaxCalls
    /\ call' \in WarmCalls
    /\ ncalls' = ncalls + 1
    /\ UNCHANGED <<rows_cache, nrows_cache, last>>

NextWarm == Invoke \/ GetRowsFromNrows \/ GetNrowsFromNseats \/ GetSeatsCenters

SpecWarm == InitWarm /\ [][NextWarm]_vars

\* ------------------------------------------------------------ the properties
\* The last call was get_seats_centers with a member of FillingStrategy.
RanWithStrategy ==
    last.op = "get_seats_centers" /\ last.filling_strategy \in FillingStrategy

\* The last call left every argument but nseats and filling_strategy at its default.
DefaultArguments ==
    /\ last.min_nrows = 0
    /\ last.seat_radius_factor = <<1, 1>>
    /\ last.span_angle = _DEFAULT_SPAN_ANGLE

\* The seats positions holds for row r.
SeatsOfRow(r) == {p \in last.positions : p.row = r}

\* C1: for every nseats >= 0 and each of the three filling strategies,
\* get_seats_centers(nseats, filling_strategy=...) returns exactly nseats positions.
\* The code raises for some of these calls (get_seats_centers(1) among them).
C1_ReturnsNseatsPositions ==
    (RanWithStrategy /\ DefaultArguments)
        => (last.raised = "" /\ Cardinality(last.positions) = last.nseats)

\* C2: for valid inputs get_seats_centers raises no exception; its only error is the
\* ValueError of an unrecognized filling strategy.  The code raises ZeroDivisionError
\* and IndexError on valid inputs.
C2_OnlyErrorIsValueError ==
    last.op = "get_seats_centers"
        => \/ last.raised = ""
           \/ /\ last.raised = "ValueError"
              /\ last.stage = "match"
              /\ last.filling_strategy \notin FillingStrategy

\* C3: a row that is allocated exactly one seat gets that seat at angle pi/2, at
\* (1, R); get_seats_centers(1) gives one row whose seat is at (1, 0.5).  The code
\* raises ZeroDivisionError in a row allocated one seat, before it places the seat.
C3_SingleSeatCentered ==
    last.op = "get_seats_centers"
        => /\ \A i \in 1..Len(last.alloc) :
                 last.alloc[i][2] = 1
                    => SeatsOfRow(last.alloc[i][1])
                          = {[row |-> last.alloc[i][1], s |-> 0, n |-> 1]}
           /\ (RanWithStrategy /\ DefaultArguments /\ last.nseats = 1)
                 => /\ last.attr_nrows = 1
                    /\ last.positions = {[row |-> 0, s |-> 0, n |-> 1]}

\* The number of seats k rows can hold together.
Capacity(k, span_angle) == Sum(get_rows_from_nrows(k, span_angle))

\* k is the smallest row count, 1 at least, whose rows can hold nseats seats.
IsMinimalNrows(k, nseats, span_angle) ==
    /\ k >= 1
    /\ Capacity(k, span_angle) >= nseats
    /\ \A j \in 1..(k - 1) : Capacity(j, span_angle) < nseats

\* C4: get_nrows_from_nseats returns the smallest row count k >= 1 such that
\* sum(get_rows_from_nrows(k, span_angle)) >= nseats; for nseats = 0 it returns 1.
C4_NrowsIsMinimal ==
    last.op = "get_nrows_from_nseats"
        => /\ IsMinimalNrows(last.rv, last.nseats, last.span_angle)
           /\ (last.nseats = 0 => last.rv = 1)

\* C4's case: a call that had to go past two row counts that were too small.
C4_Witness ==
    /\ last.op = "get_nrows_from_nseats"
    /\ last.rv >= 3
    /\ Capacity(last.rv - 1, last.span_angle) < last.nseats

\* C5: get_seats_centers works with nrows = max(min_nrows,
\* get_nrows_from_nseats(nseats, span_angle)) rows, whose capacity for the requested
\* span is at least nseats; the result's nrows and seat_radius_factor attributes are
\* the row count used and the factor passed.
C5_NrowsUsed ==
    last.op = "get_seats_centers"
        => /\ IsMinimalNrows(last.needed_nrows, last.nseats, last.span_angle)
           /\ last.nrows = Max(last.min_nrows, last.needed_nrows)
           /\ last.maxed_rows = get_rows_from_nrows(last.nrows, last.span_angle)
           /\ Sum(last.maxed_rows) >= last.nseats
           /\ last.stage = "return"
                 => /\ last.attr_nrows = last.nrows
                    /\ last.attr_seat_radius_factor = last.seat_radius_factor

\* C5's case: a returned diagram on a narrow span whose row count is min_nrows,
\* more than the seats need, with a seat_radius_factor that is not the default.
C5_Witness ==
    /\ last.op = "get_seats_centers"
    /\ last.stage = "return"
    /\ last.span_angle # _DEFAULT_SPAN_ANGLE
    /\ last.nrows = last.min_nrows
    /\ last.needed_nrows \in 2..(last.nrows - 1)
    /\ last.attr_seat_radius_factor = <<4, 5>>
    /\ last.positions # {}

\* The capacities of rows j, j+1, ... (0-based) of maxed_rows.
RowsFrom(maxed_rows, j) == SubSeq(maxed_rows, j + 1, Len(maxed_rows))

\* The first row of the longest run of outermost rows that nseats seats fill
\* completely (the row count when not even the outermost row can be filled).
FirstFullRow(nseats, maxed_rows) ==
    CHOOSE j \in 0..Len(maxed_rows) :
        /\ Sum(RowsFrom(maxed_rows, j)) <= nseats
        /\ \A i \in 0..(j - 1) : Sum(RowsFrom(maxed_rows, i)) > nseats

\* The seats OUTER_PRIORITY owes row r: its capacity in the full rows, the remainder
\* in the row just inside them, none further in.
OuterPriorityShare(nseats, maxed_rows, r) ==
    LET f == FirstFullRow(nseats, maxed_rows)
    IN IF r >= f THEN maxed_rows[r + 1]
       ELSE IF r = f - 1 THEN nseats - Sum(RowsFrom(maxed_rows, f))
       ELSE 0

\* The match statement of the last get_seats_centers call ran to its end.
StrategyChosen ==
    last.op = "get_seats_centers" /\ last.stage \in {"loop", "return"}

\* C6: with OUTER_PRIORITY the allocation is a prefix of empty innermost rows, then at
\* most one partially filled row, then a suffix of outermost rows filled to capacity:
\* the suffix is the longest whose capacity is at most nseats, and the partial row
\* holds nseats minus the suffix's capacity.  Stated for every row the loop reaches
\* and, when the call returns, for the seats of every row.
C6_OuterPriorityAllocation ==
    (StrategyChosen /\ last.filling_strategy = OUTER_PRIORITY)
        => LET f == FirstFullRow(last.nseats, last.maxed_rows)
               partial == last.nseats - Sum(RowsFrom(last.maxed_rows, f))
           IN /\ last.starting_row = f - 1
              /\ f >= 1 => (partial >= 0 /\ partial < last.maxed_rows[f])
              /\ f = 0 => partial = 0
              /\ \A i \in 1..Len(last.alloc) :
                    /\ last.alloc[i][1] >= f - 1
                    /\ last.alloc[i][2] =
                          IF last.alloc[i][1] < 0 THEN 0
                          ELSE OuterPriorityShare(last.nseats, last.maxed_rows,
                                                  last.alloc[i][1])
              /\ last.stage = "return"
                    => \A r \in 0..(last.nrows - 1) :
                          Cardinality(SeatsOfRow(r)) =
                             OuterPriorityShare(last.nseats, last.maxed_rows, r)

\* C6's case: a returned diagram with an empty inner row, a partial row that holds
\* seats and full rows outside it.
C6_Witness ==
    /\ StrategyChosen
    /\ last.filling_strategy = OUTER_PRIORITY
    /\ last.stage = "return"
    /\ last.starting_row >= 1
    /\ last.starting_row < last.nrows - 1
    /\ SeatsOfRow(last.starting_row - 1) = {}
    /\ Cardinality(SeatsOfRow(last.starting_row)) \in
          1..(last.maxed_rows[last.starting_row + 1] - 1)
    /\ Cardinality(SeatsOfRow(last.nrows - 1)) = last.maxed_rows[last.nrows]

\* C7: with EMPTY_INNER the rows that receive seats are exactly the shortest run of
\* outermost rows whose capacity is at least nseats; every row inside it receives no
\* seat; the filling ratio is nseats over the capacity of that run.
C7_EmptyInnerSuffix ==
    (StrategyChosen /\ last.filling_strategy = EMPTY_INNER)
        => LET s == last.starting_row
           IN /\ s \in 0..(last.nrows - 1)
              /\ Sum(RowsFrom(last.maxed_rows, s)) >= last.nseats
              /\ Sum(RowsFrom(last.maxed_rows, s + 1)) < last.nseats
              /\ last.filling_ratio = <<last.nseats, Sum(RowsFrom(last.maxed_rows, s))>>
              /\ \A i \in 1..Len(last.alloc) :
                    /\ last.alloc[i][1] = s + i - 1
                    /\ last.alloc[i][2] >= 1
              /\ last.stage = "return"
                    => \A r \in 0..(last.nrows - 1) : (SeatsOfRow(r) # {}) <=> (r >= s)

\* C7's case: a returned diagram whose two innermost rows stay empty and whose
\* outer rows are not filled to capacity.
C7_Witness ==
    /\ StrategyChosen
    /\ last.filling_strategy = EMPTY_INNER
    /\ last.stage = "return"
    /\ last.starting_row >= 2
    /\ last.starting_row < last.nrows - 1
    /\ last.nseats < Sum(RowsFrom(last.maxed_rows, last.starting_row))
    /\ Cardinality(last.positions) = last.nseats

\* The seats the loop had placed before the i-th row it reached.
RECURSIVE PlacedBefore(_)
PlacedBefore(i) == IF i <= 1 THEN 0 ELSE PlacedBefore(i - 1) + last.alloc[i - 1][2]

\* C8: DEFAULT starts at row 0 with the ratio nseats / sum(maxed_rows).  With DEFAULT
\* and EMPTY_INNER every row but the last gets round(ratio * capacity) seats, which is
\* within one half of its proportional share and even when the share is halfway
\* between two integers; the last row gets nseats minus the seats already placed.
C8_ProportionalRows ==
    (StrategyChosen /\ last.filling_strategy \in {DEFAULT, EMPTY_INNER})
        => /\ last.filling_strategy = DEFAULT
                 => /\ last.starting_row = 0
                    /\ last.filling_ratio = <<last.nseats, Sum(last.maxed_rows)>>
           /\ \A i \in 1..Len(last.alloc) :
                 LET r == last.alloc[i][1]
                     n == last.alloc[i][2]
                     off == Abs(n * last.filling_ratio[2]
                                  - last.filling_ratio[1] * last.maxed_rows[r + 1])
                 IN /\ r = last.starting_row + i - 1
                    /\ IF r = last.nrows - 1
                       THEN n = last.nseats - PlacedBefore(i)
                       ELSE /\ 2 * off <= last.filling_ratio[2]
                            /\ 2 * off = last.filling_ratio[2] => n % 2 = 0

\* C8's case: a returned DEFAULT diagram of three rows or more in which an inner
\* row's share was rounded up and another's was rounded down.
C8_Witness ==
    /\ StrategyChosen
    /\ last.filling_strategy = DEFAULT
    /\ last.stage = "return"
    /\ last.nrows >= 3
    /\ \E i, j \in 1..(Len(last.alloc) - 1) :
          /\ last.alloc[i][2] * last.filling_ratio[2]
                > last.filling_ratio[1] * last.maxed_rows[last.alloc[i][1] + 1]
          /\ last.alloc[j][2] * last.filling_ratio[2]
                < last.filling_ratio[1] * last.maxed_rows[last.alloc[j][1] + 1]

\* The pending call is get_seats_centers with a value that is no FillingStrategy.
UnrecognizedStrategyCall ==
    call.op = "get_seats_centers" /\ call.filling_strategy \notin FillingStrategy

\* Every entry of cache old is in cache new, unchanged.
CacheKeeps(old, new) ==
    /\ DOMAIN old \subseteq DOMAIN new
    /\ \A k \in DOMAIN old : new[k] = old[k]

NrowsResults ==
    {<<k[1], k[2], nrows_cache[k]>> : k \in DOMAIN nrows_cache}
        \cup (IF last.op = "get_nrows_from_nseats"
              THEN {<<last.nseats, last.span_angle, last.rv>>}
              ELSE {})
        \cup (IF last.op = "get_seats_centers"
              THEN {<<last.nseats, last.span_angle, last.needed_nrows>>}
              ELSE {})

\* C10: get_nrows_from_nseats is monotone non-decreasing in nseats: on a given span,
\* more seats never need fewer rows.
C10_NrowsMonotone ==
    \A x, y \in NrowsResults :
        (x[2] = y[2] /\ x[1] <= y[1]) => x[3] <= y[3]

\* C10's case: on one span, three seat counts of which the largest needs more rows
\* than the smallest.
C10_Witness ==
    \E x, y, z \in NrowsResults :
        /\ x[2] = y[2] /\ y[2] = z[2]
        /\ x[1] < y[1] /\ y[1] < z[1]
        /\ x[3] < z[3]

\* The row capacities the process has seen, as <<nrows, span_angle, capacities>>:
\* the memoized ones and the one the last call of get_rows_from_nrows returned.
RowsResults ==
    {<<k[1], k[2], rows_cache[k]>> : k \in DOMAIN rows_cache}
        \cup (IF last.op = "get_rows_from_nrows"
              THEN {<<last.arg_nrows, last.span_angle, last.rv>>}
              ELSE {})

\* C11: on a given span the total capacity sum(get_rows_from_nrows(k, span_angle))
\* is non-decreasing in the row count k >= 1.
C11_CapacityMonotone ==
    /\ \A x, y \in RowsResults :
          (x[2] = y[2] /\ x[1] <= y[1]) => Sum(x[3]) <= Sum(y[3])
    /\ last.op = "get_rows_from_nrows"
          => \A k \in 1..(last.arg_nrows - 1) :
                Capacity(k, last.span_angle) <= Capacity(k + 1, last.span_angle)

\* C11's case: get_rows_from_nrows returned the capacities of more rows than a
\* memoized diagram of the same span has, and they hold more seats.
C11_Witness ==
    /\ last.op = "get_rows_from_nrows"
    /\ \E k \in DOMAIN rows_cache :
          /\ k[2] = last.span_angle
          /\ k[1] \in 2..(last.arg_nrows - 1)
          /\ Sum(rows_cache[k]) < Sum(last.rv)

\* floor(span_angle in radians * (nrows - 1/2 + r)), for row r (0-based) of nrows.
ClosedFormRow(nrows, span_angle, r) ==
    (PiLoNum * span_angle * (2 * nrows - 1 + 2 * r)) \div (PiLoDen * 360)

\* rows is the list of nrows capacities the closed form gives, inner to outer.
IsClosedFormRows(rows, nrows, span_angle) ==
    /\ DOMAIN rows = 1..nrows
    /\ \A r \in 0..(nrows - 1) :
          /\ rows[r + 1] \in Nat
          /\ rows[r + 1] = ClosedFormRow(nrows, span_angle, r)

\* C12: get_rows_from_nrows(nrows, span_angle) returns exactly nrows integers, inner
\* row first, whose entry r is floor(span_angle_in_radians * R(r) / (2t)) with
\* t = 1/(4*nrows - 2) and R(r) = 0.5 + 2*r*t, which is
\* floor(span_angle_in_radians * (nrows - 1/2 + r)).  Stated for the list the public
\* function returns and for the capacities get_seats_centers works with.
C12_RowFormula ==
    /\ last.op = "get_rows_from_nrows"
          => IsClosedFormRows(last.rv, last.arg_nrows, last.span_angle)
    /\ last.op = "get_seats_centers"
          => IsClosedFormRows(last.maxed_rows, last.nrows, last.span_angle)

\* C12's case: the capacities of three rows or more on a span that is not the default.
C12_Witness ==
    /\ last.op = "get_rows_from_nrows"
    /\ last.arg_nrows >= 3
    /\ last.span_angle # _DEFAULT_SPAN_ANGLE
    /\ Len(last.rv) = last.arg_nrows
    /\ last.rv[1] < last.rv[last.arg_nrows]

\* The last call was get_svg_from_attribution and it reached get_grouped_svg.
SvgRendered == last.op = "get_svg_from_attribution" /\ last.raised = ""

\* C13: in get_svg_from_attribution the seat radius handed to the renderer is
\* seat_radius_factor times the row thickness of the row count the layout used (the
\* nrows of the get_seats_centers result), for every nseats, min_nrows and
\* span_angle.
C13_RadiusOfLayoutRows ==
    SvgRendered =>
        last.seat_actual_radius
            = RMul(last.seat_radius_factor, _get_row_thickness(last.attr_nrows))

\* floor(q * 100000) and ceil(q * 100000) for a rational q.
Lower(q) == (q[1] * 100000) \div q[2]
Upper(q) == -((-q[1] * 100000) \div q[2])

\* Bounds of an angle a, in hundred-thousandths of pi: for 0 <= x <= 1,
\* x <= asin(x) <= x*pi/2, and 22/7 is above pi.
AngleLo(a) ==
    Lower(a.pi) + (IF a.asin[1] >= 0 THEN Lower(RMul(a.asin, RMul(a.of, <<7, 22>>)))
                   ELSE Lower(RMul(a.asin, RMul(a.of, <<1, 2>>))))

AngleHi(a) ==
    Upper(a.pi) + (IF a.asin[1] >= 0 THEN Upper(RMul(a.asin, RMul(a.of, <<1, 2>>)))
                   ELSE Upper(RMul(a.asin, RMul(a.of, <<7, 22>>))))

\* seq is in descending order of angle: no float is below the one that follows it,
\* and no angle is below the following one by the rational bounds either.
DescendingAngles(seq) ==
    \A i \in 1..(Len(seq) - 1) :
        /\ AngleValue(seq[i]) >= AngleValue(seq[i + 1])
        /\ ~(AngleHi(seq[i].angle) < AngleLo(seq[i + 1].angle))

\* seq lists every element of the set positions once.
PermutationOf(seq, positions) ==
    /\ Len(seq) = Cardinality(positions)
    /\ {seq[i] : i \in 1..Len(seq)} = positions

\* The last call was get_svg_from_attribution and it reached dispatch_seats.
SvgDispatched ==
    last.op = "get_svg_from_attribution" /\ last.stage \in {"dispatch", "return"}

\* The last call was the legacy get_seats_centers and it returned.
LegacyReturned == last.op = "legacy_get_seats_centers" /\ last.raised = ""

\* C14: the list get_svg_from_attribution passes to dispatch_seats, and the list the
\* legacy get_seats_centers returns, is in descending order of angle (each
\* element's angle is >= the angle of the next) and is a permutation of all the
\* computed seats.
C14_DescendingAngleOrder ==
    /\ SvgDispatched =>
          DescendingAngles(last.seats) /\ PermutationOf(last.seats, last.positions)
    /\ LegacyReturned =>
          DescendingAngles(last.rv) /\ PermutationOf(last.rv, last.positions)

\* Both lists occur with several rows of several seats, and then the list is not
\* in the order the seats were computed in.
C14_Witness ==
    /\ \/ SvgDispatched /\ last.seats # InsertionOrder(last.positions)
       \/ LegacyReturned /\ last.rv # InsertionOrder(last.positions)
    /\ Cardinality(last.positions) = last.nseats
    /\ last.nseats >= 10
    /\ Cardinality({p.row : p \in last.positions}) >= 3
    /\ last.span_angle = 90

\* The last call was dispatch_seats; the sum of the values of its group_seats.
Dispatched == last.op = "dispatch_seats"
Requested == Sum([i \in 1..Len(last.group_seats) |-> last.group_seats[i][2]])

\* The number of seats requested by the groups before the i-th.
RequestedBefore(i) == Sum([j \in 1..(i - 1) |-> last.group_seats[j][2]])

\* The lists of the dict rv, one after the other.
RECURSIVE Concatenation(_)
Concatenation(rv) == IF rv = <<>> THEN <<>> ELSE Head(rv)[2] \o Concatenation(Tail(rv))

\* C15: dispatch_seats(group_seats, seats) gives the groups consecutive slices of
\* seats, in dict order: the first group the first N seats, the next group the M
\* that follow, and so on; each group's list has the length it asked for, the keys
\* of the result are the groups in their original order, and the lists put end to
\* end are the first sum(group_seats.values()) seats.
C15_ConsecutiveSlices ==
    (Dispatched /\ last.raised = "") =>
        /\ Requested <= Len(last.seats)
        /\ Len(last.rv) = Len(last.group_seats)
        /\ \A i \in 1..Len(last.group_seats) :
              /\ last.rv[i][1] = last.group_seats[i][1]
              /\ Len(last.rv[i][2]) = last.group_seats[i][2]
              /\ last.rv[i][2] = SubSeq(last.seats, RequestedBefore(i) + 1,
                                        RequestedBefore(i) + last.group_seats[i][2])
        /\ Concatenation(last.rv) = SubSeq(last.seats, 1, Requested)

\* Three groups that each get seats, the second a seat unlike the first's.
C15_Witness ==
    /\ Dispatched /\ last.raised = ""
    /\ Len(last.rv) = 3
    /\ \A i \in 1..3 : last.rv[i][2] # <<>>
    /\ last.rv[1][2] # last.rv[2][2]

\* C16: dispatch_seats raises an exception, and returns nothing, when it is passed
\* fewer seats than the groups ask for in total; passed more, it emits a warning and
\* still returns a dict where every group has exactly its count of seats; passed
\* exactly as many, it emits no warning.
C16_TooFewRaisesTooManyWarns ==
    Dispatched =>
        /\ Len(last.seats) < Requested =>
              last.raised # "" /\ last.rv = <<>> /\ ~last.warned
        /\ Len(last.seats) > Requested =>
              /\ last.raised = "" /\ last.warned
              /\ Len(last.rv) = Len(last.group_seats)
              /\ \A i \in 1..Len(last.group_seats) :
                    Len(last.rv[i][2]) = last.group_seats[i][2]
        /\ Len(last.seats) = Requested => last.raised = "" /\ ~last.warned

\* Two groups are served and a seat is left over: the call warns.
C16_Witness ==
    /\ Dispatched /\ last.warned
    /\ Len(last.group_seats) = 2
    /\ \A i \in 1..2 : last.group_seats[i][2] >= 1
    /\ Len(last.seats) = Requested + 1

\* The last call was get_seats_centers and it returned.
Placed == last.op = "get_seats_centers" /\ last.raised = ""

\* The angles a and b add up to pi.
SumIsPi(a, b) ==
    /\ RAdd(a.pi, b.pi) = RInt(1)
    /\ RAdd(a.asin, b.asin) = RInt(0)
    /\ a.asin # RInt(0) => a.of = b.of

\* C17: in every row that gets n > 1 seats the angles are symmetric about pi/2: the
\* angle of seat i plus the angle of seat n-1-i is pi, for every 0 <= i < n.
C17_RowSymmetry ==
    Placed =>
        \A p \in last.positions :
            p.n > 1 =>
                \E q \in last.positions :
                    /\ q.row = p.row
                    /\ q.s = p.n - 1 - p.s
                    /\ SumIsPi(p.angle, q.angle)

\* A narrow span, a seat radius below the row thickness and a row of at least five
\* seats, whose first seat is not at the span's edge.
C17_Witness ==
    /\ Placed
    /\ last.span_angle = 60
    /\ last.seat_radius_factor = <<4, 5>>
    /\ \E p \in last.positions :
          p.n >= 5 /\ p.s = 0 /\ p.angle.asin = RInt(1) /\ p.angle.pi = <<1, 3>>

\* row_thicc and seat_radius of the last call, and the radius R of its row r.
LastThickness == _get_row_thickness(last.nrows)
LastSeatRadius == RMul(LastThickness, last.seat_radius_factor)
LastRadius(r) == RowRadius(r, LastThickness)

\* A rational that is not above the angle a, in units of pi: for 0 <= x <= 1,
\* x <= asin(x) <= x*pi/2, and 22/7 is above pi.
LowerBound(a) ==
    RAdd(a.pi, RMul(a.asin, RMul(a.of, IF a.asin[1] >= 0 THEN <<7, 22>> ELSE <<1, 2>>)))

\* The angle a + k*asin(seat_radius/R) for the seat p, whose angle is a.
PlusAsin(p, a, k) ==
    Angle(a.pi, RAdd(a.asin, RInt(k)), RDiv(LastSeatRadius, LastRadius(p.row)))

\* pi - a.
Supplement(a) == [pi |-> RAdd(RInt(1), RMul(RInt(-1), a.pi)),
                  asin |-> RMul(RInt(-1), a.asin), of |-> a.of]

\* The seat p is at y >= seat_radius: y is R*sin(angle) and seat_radius is
\* R*sin(asin(seat_radius/R)), so this is asin(seat_radius/R) <= angle and
\* angle <= pi - asin(seat_radius/R).
AboveBottom(p) ==
    /\ LowerBound(PlusAsin(p, p.angle, -1))[1] >= 0
    /\ LowerBound(PlusAsin(p, Supplement(p.angle), -1))[1] >= 0

\* The seat p is at seat_radius <= x <= 2 - seat_radius: x is R*cos(angle) + 1, and
\* R + seat_radius <= 1.
BetweenSides(p) == ~RLt(RInt(1), RAdd(LastRadius(p.row), LastSeatRadius))

\* C18: the row radii R(r) = 0.5 + 2*r*t grow strictly with the row index, and for
\* seat_radius_factor <= 1 every seat's disk (its position as center, radius
\* seat_radius_factor * t) is within the 2 by 1 canvas: R(nrows-1) + t = 1 for the
\* outermost row, and every center has y >= seat radius and
\* seat radius <= x <= 2 - seat radius.  The spans are those the function
\* supports, up to 180 degrees.
C18_SeatsWithinCanvas ==
    (Placed /\ ~RLt(RInt(1), last.seat_radius_factor) /\ last.span_angle <= 180) =>
        /\ \A r \in 0..(last.nrows - 2) : RLt(LastRadius(r), LastRadius(r + 1))
        /\ RAdd(LastRadius(last.nrows - 1), LastThickness) = RInt(1)
        /\ \A p \in last.positions : AboveBottom(p) /\ BetweenSides(p)

\* Seats that touch the canvas: on a 180 degree span with seat_radius_factor 1 the
\* first seat of the outermost of several rows is at y = seat_radius.
C18_Witness ==
    /\ Placed
    /\ last.nrows >= 3
    /\ last.seat_radius_factor = RInt(1)
    /\ \E p \in last.positions :
          /\ p.row = last.nrows - 1 /\ p.s = 0 /\ p.n >= 5
          /\ p.angle.pi = RInt(0) /\ p.angle.asin = RInt(1)

\* m = (1 - span_angle/180) * pi/2 of the last call, in units of pi.
LastMargin == Rat(180 - last.span_angle, 360)

\* The angle a - m.
MinusMargin(a) ==
    [pi |-> RAdd(a.pi, RMul(RInt(-1), LastMargin)), asin |-> a.asin, of |-> a.of]

\* C19: for a span angle below 180 degrees every angle produced is within
\* [m, pi - m], where m = (1 - span_angle/180) * pi/2; for span_angle = 90 that is
\* [pi/4, 3pi/4], whatever the number of seats and the strategy.
C19_AnglesWithinSpan ==
    (Placed /\ last.span_angle < 180) =>
        \A p \in last.positions :
            /\ LowerBound(MinusMargin(p.angle))[1] >= 0
            /\ LowerBound(MinusMargin(Supplement(p.angle)))[1] >= 0

\* A 90 degree span whose innermost and outermost rows both hold seats.
C19_Witness ==
    /\ Placed
    /\ last.span_angle = 90
    /\ last.filling_strategy = DEFAULT
    /\ \E p, q \in last.positions :
          /\ p.row = 0 /\ p.s = 0 /\ p.angle.pi = <<1, 4>>
          /\ q.row = last.nrows - 1 /\ q.row >= 2 /\ q.s = q.n - 1

\* What the last call's function gives for the same arguments and a span of 180
\* degrees, in a fresh process.
ResultFor180 ==
    CASE last.op = "get_rows_from_nrows" ->
            get_rows_from_nrows(last.arg_nrows, 180)
      [] last.op = "get_nrows_from_nseats" ->
            get_nrows_from_nseats(last.nseats, 180, EmptyCache).rv
      [] last.op = "get_seats_centers" ->
            get_seats_centers(last.nseats, last.min_nrows, last.filling_strategy,
                              last.seat_radius_factor, 180,
                              EmptyCache, EmptyCache).call.positions

\* C20: a span_angle above 180 degrees is not silently used: get_seats_centers and
\* the row planner, called with span_angle > 180, either reject the call with an
\* error or give the result they give for span_angle = 180.
C20_WideSpanRejectedOrClamped ==
    (last.op \in {"get_rows_from_nrows", "get_nrows_from_nseats", "get_seats_centers"}
        /\ last.span_angle > 180) =>
        \/ last.raised # ""
        \/ (IF last.op = "get_seats_centers" THEN last.positions ELSE last.rv)
               = ResultFor180

\* C21: a seat_radius_factor outside [0, 1] is not fatal: for every such value
\* (1.5 or 4, say) get_seats_centers still returns a result with nseats positions
\* instead of raising.
C21_WideFactorNotFatal ==
    (last.op = "get_seats_centers" /\ last.filling_strategy \in FillingStrategy
        /\ RLt(RInt(1), last.seat_radius_factor)) =>
        last.raised = "" /\ Cardinality(last.positions) = last.nseats

\* The last call was get_seats_centers with OUTER_PRIORITY, min_nrows decided its
\* number of rows, and its loop began.
OuterPriorityForcedRows ==
    /\ StrategyChosen
    /\ last.filling_strategy = OUTER_PRIORITY
    /\ last.min_nrows > 0 /\ last.nrows = last.min_nrows

\* The same call, in a fresh process, with one seat more.
OneSeatMore ==
    get_seats_centers(last.nseats + 1, last.min_nrows, last.filling_strategy,
                      last.seat_radius_factor, last.span_angle,
                      EmptyCache, EmptyCache).call

\* The rows the loop of the call c reached, and the nseats_this_row it gave row r.
RowsReached(c) == {c.alloc[i][1] : i \in 1..Len(c.alloc)}
Allocated(c, r) == c.alloc[CHOOSE i \in 1..Len(c.alloc) : c.alloc[i][1] = r][2]

\* The outermost row of the call c that holds fewer seats than its capacity.
OutermostOpenRow(c) ==
    CHOOSE r \in 0..(c.nrows - 1) :
        /\ Cardinality({p \in c.positions : p.row = r}) < c.maxed_rows[r + 1]
        /\ \A q \in (r + 1)..(c.nrows - 1) :
              Cardinality({p \in c.positions : p.row = q}) >= c.maxed_rows[q + 1]

\* C22: under OUTER_PRIORITY, with the number of rows fixed by min_nrows and a fixed
\* span, going from n to n+1 seats lowers no row's allocation and raises exactly
\* one row's allocation, by one: the partially filled row or, once it is full, the
\* next row inward, so that rows fill from the outermost inward.  Stated for the
\* rows the loops of both calls reach and, when both calls return, for the seats of
\* every row; where the call for n+1 stops at a row, that row is the one that was
\* to get the seat.
C22_OuterPriorityIncrement ==
    (OuterPriorityForcedRows /\ OneSeatMore.nrows = last.nrows
        /\ OneSeatMore.stage \in {"loop", "return"}) =>
        /\ \A r \in RowsReached(last) \cap RowsReached(OneSeatMore) :
              /\ Allocated(OneSeatMore, r) >= Allocated(last, r)
              /\ Allocated(OneSeatMore, r) <= Allocated(last, r) + 1
        /\ (last.stage = "return" /\ OneSeatMore.stage = "return") =>
              \A r \in 0..(last.nrows - 1) :
                  Cardinality({p \in OneSeatMore.positions : p.row = r})
                      = Cardinality(SeatsOfRow(r))
                          + (IF r = OutermostOpenRow(last) THEN 1 ELSE 0)
        /\ (last.stage = "return" /\ OneSeatMore.stage = "loop") =>
              OneSeatMore.alloc[Len(OneSeatMore.alloc)]
                  = <<OutermostOpenRow(last),
                      Cardinality(SeatsOfRow(OutermostOpenRow(last))) + 1>>

\* Two diagrams of four rows, both returned, where the seat goes to a partial row
\* inside of full rows.
C22_Witness ==
    /\ OuterPriorityForcedRows
    /\ last.stage = "return" /\ OneSeatMore.stage = "return"
    /\ OneSeatMore.nrows = last.nrows
    /\ OutermostOpenRow(last) < last.nrows - 1
    /\ Cardinality(SeatsOfRow(OutermostOpenRow(last))) >= 2

\* The loop of the last get_seats_centers call stopped, with an exception, at a row
\* it had given no seat.
RaisedAtEmptyRow ==
    /\ last.stage = "loop" /\ last.raised # ""
    /\ last.alloc[Len(last.alloc)][2] = 0

\* C23: a row the loop processes with an allocation of 0 seats (min_nrows forces
\* more rows than needed, or the partial row of OUTER_PRIORITY is empty) adds no
\* position and does not raise; the rows after it are still processed and the
\* final count is unaffected.
C23_EmptyRowHarmless ==
    StrategyChosen =>
        /\ ~RaisedAtEmptyRow
        /\ \A i \in 1..Len(last.alloc) :
              last.alloc[i][2] = 0 =>
                  /\ SeatsOfRow(last.alloc[i][1]) = {}
                  /\ i < Len(last.alloc) => last.alloc[i + 1][1] = last.alloc[i][1] + 1
        /\ last.stage = "return" => Cardinality(last.positions) = last.nseats

\* ------------------------------------------------ threads sharing the two caches
\* A hosting application that calls the module from several threads.  In this
\* specification call and last hold one entry per thread: call[t] is the frame of
\* the call thread t is in, last[t] what its last call returned.  rows_cache holds
\* the objects _cached_get_rows_from_nrows stored, each with its kind, so that a
\* list and a tuple are told apart and an object handed to a caller is the cached
\* one; nrows_cache holds integers.  A step of a thread is one access to a cache:
\* the wrapper of functools.cache looks the key up, and on a miss calls the function
\* and stores its result, the other threads running in between.
Threads == {1, 2}

\* Calls the threads make, all of them together.
MaxThreadCalls == 3

ThreadSpans == {_DEFAULT_SPAN_ANGLE, 90}

\* A list object, as get_rows_from_nrows returns a new one at each call.
List(items) == [kind |-> "list", items |-> items]

\* A faulty conversion: the list itself is cached and handed to the callers.
Tuple_SameList(obj) == obj

\* tuple(obj): a new, immutable object with the same items.
Tuple(obj) == [kind |-> "tuple", items |-> obj.items]

IdleFrame ==
    [op |-> "none", nseats |-> 0, arg_nrows |-> 0, span_angle |-> 0,
     pc |-> "idle", stage |-> "", i |-> 0, needed |-> 0]

\* What a thread holds of its last call: the call, the object returned, the key
\* under which this very object is cached (<<>> if it is not), and whether the
\* thread has mutated it.
NoResult ==
    [op |-> "none", nseats |-> 0, arg_nrows |-> 0, span_angle |-> 0,
     rv |-> <<>>, ref |-> <<>>, mutated |-> FALSE]

\* The calls a thread may make; get_seats_centers and the cached row count are
\* asked for half the seats of the largest diagram.
ThreadCalls ==
    {[IdleFrame EXCEPT !.op = "get_rows_from_nrows", !.arg_nrows = 2,
                       !.span_angle = _DEFAULT_SPAN_ANGLE, !.pc = "body"],
     [IdleFrame EXCEPT !.op = "get_nrows_from_nseats", !.nseats = MaxSeats,
                       !.span_angle = _DEFAULT_SPAN_ANGLE, !.stage = "loop", !.i = 1,
                       !.pc = "rows_lookup"]}
    \cup {[IdleFrame EXCEPT !.op = "_cached_get_rows_from_nrows", !.arg_nrows = 2,
                            !.span_angle = a, !.stage = "direct", !.i = 2,
                            !.pc = "rows_lookup"] : a \in ThreadSpans}
    \cup {[IdleFrame EXCEPT !.op = op, !.nseats = MaxSeats \div 2, !.span_angle = a,
                            !.pc = "nrows_lookup"] :
             op \in {"_cached_get_nrows_from_nseats", "get_seats_centers"},
             a \in ThreadSpans}

\* cache[k] = v of the wrapper's dict: a store replaces what the key held.
Store(cache, k, v) ==
    [x \in DOMAIN cache \cup {k} |-> IF x = k THEN v ELSE cache[x]]

\* The thread returns rv; ref is the key of rv in rows_cache if rv is cached.
Return(frame, rv, ref) ==
    [call |-> IdleFrame,
     last |-> [op |-> frame.op, nseats |-> frame.nseats,
               arg_nrows |-> frame.arg_nrows, span_angle |-> frame.span_angle,
               rv |-> rv, ref |-> ref, mutated |-> FALSE]]

\* The rest of get_seats_centers, once _cached_get_nrows_from_nseats returned
\* frame.needed and _cached_get_rows_from_nrows returned maxed_rows: no cache is
\* read any more.  The call is made with the default arguments.
SeatsCentersBody(frame, maxed_rows) ==
    get_seats_centers(frame.nseats, 0, DEFAULT, <<1, 1>>, frame.span_angle,
                      <<frame.nseats, frame.span_angle>> :> frame.needed,
                      <<frame.i, frame.span_angle>> :> maxed_rows).call

\* The thread goes on with obj, which _cached_get_rows_from_nrows(frame.i,
\* frame.span_angle) returned to it: to its caller, to the test of the while loop
\* of get_nrows_from_nseats, or to the body of get_seats_centers.
AfterRows(frame, obj) ==
    CASE frame.stage = "direct" ->
            Return(frame, obj, <<frame.i, frame.span_angle>>)
      [] frame.stage = "loop" ->
            IF Sum(obj.items) < frame.nseats
            THEN [call |-> [frame EXCEPT !.i = frame.i + 1, !.pc = "rows_lookup"]]
            ELSE IF frame.op = "get_nrows_from_nseats"
                 THEN Return(frame, frame.i, <<>>)
                 ELSE [call |-> [frame EXCEPT !.needed = frame.i,
                                              !.pc = "nrows_store"]]
      [] frame.stage = "maxed" ->
            Return(frame, SeatsCentersBody(frame, obj.items), <<>>)

\* The thread goes on with frame.needed, which _cached_get_nrows_from_nseats
\* returned to it: to its caller, or to line 134 of get_seats_centers, where
\* min_nrows is 0, and on to the lookup of maxed_rows.
AfterNrows(frame) ==
    IF frame.op = "_cached_get_nrows_from_nseats"
    THEN Return(frame, frame.needed, <<>>)
    ELSE [call |-> [frame EXCEPT !.stage = "maxed", !.i = Max(0, frame.needed),
                                 !.pc = "rows_lookup"]]

\* call and last after thread t moved on to next.
Proceed(t, next) ==
    /\ call' = [call EXCEPT ![t] = next.call]
    /\ last' = IF "last" \in DOMAIN next THEN [last EXCEPT ![t] = next.last] ELSE last

InitThreads ==
    /\ rows_cache = EmptyCache
    /\ nrows_cache = EmptyCache
    /\ call = [t \in Threads |-> IdleFrame]
    /\ last = [t \in Threads |-> NoResult]
    /\ ncalls = 0

\* A thread makes its next call.
ThreadInvoke ==
    \E t \in Threads :
        /\ call[t].pc = "idle"
        /\ ncalls < MaxThreadCalls
        /\ \E frame \in ThreadCalls : call' = [call EXCEPT ![t] = frame]
        /\ ncalls' = ncalls + 1
        /\ UNCHANGED <<rows_cache, nrows_cache, last>>

\* A thread runs the public get_rows_from_nrows, which reads no cache.
ThreadGetRowsFromNrows ==
    \E t \in Threads :
        /\ call[t].pc = "body"
        /\ Proceed(t, Return(call[t],
                             List(get_rows_from_nrows(call[t].arg_nrows,
                                                      call[t].span_angle)),
                             <<>>))
        /\ UNCHANGED <<rows_cache, nrows_cache, ncalls>>

\* The wrapper of _cached_get_rows_from_nrows looks its key up: on a hit the thread
\* goes on with the cached object, on a miss it enters the function.
ThreadRowsLookup ==
    \E t \in Threads :
        /\ call[t].pc = "rows_lookup"
        /\ IF <<call[t].i, call[t].span_angle>> \in DOMAIN rows_cache
           THEN Proceed(t, AfterRows(call[t],
                                     rows_cache[<<call[t].i, call[t].span_angle>>]))
           ELSE Proceed(t, [call |-> [call[t] EXCEPT !.pc = "rows_store"]])
        /\ UNCHANGED <<rows_cache, nrows_cache, ncalls>>

\* After a miss: tuple(get_rows_from_nrows(nrows, span_angle)) is stored, whatever
\* another thread stored in between, and the thread goes on with it.
ThreadRowsStore ==
    \E t \in Threads :
        /\ call[t].pc = "rows_store"
        /\ \E obj \in {Tuple(List(get_rows_from_nrows(call[t].i, call[t].span_angle)))} :
              /\ rows_cache' = Store(rows_cache, <<call[t].i, call[t].span_angle>>, obj)
              /\ Proceed(t, AfterRows(call[t], obj))
        /\ UNCHANGED <<nrows_cache, ncalls>>

\* The wrapper of _cached_get_nrows_from_nseats looks its key up: on a hit the
\* thread goes on with the cached row count, on a miss it enters the while loop.
ThreadNrowsLookup ==
    \E t \in Threads :
        /\ call[t].pc = "nrows_lookup"
        /\ IF <<call[t].nseats, call[t].span_angle>> \in DOMAIN nrows_cache
           THEN Proceed(t, AfterNrows([call[t] EXCEPT !.needed =
                               nrows_cache[<<call[t].nseats, call[t].span_angle>>]]))
           ELSE Proceed(t, [call |-> [call[t] EXCEPT !.stage = "loop", !.i = 1,
                                                     !.pc = "rows_lookup"]])
        /\ UNCHANGED <<rows_cache, nrows_cache, ncalls>>

\* After a miss and the loop: the row count is stored and the thread goes on.
ThreadNrowsStore ==
    \E t \in Threads :
        /\ call[t].pc = "nrows_store"
        /\ nrows_cache' = Store(nrows_cache, <<call[t].nseats, call[t].span_angle>>,
                                call[t].needed)
        /\ Proceed(t, AfterNrows(call[t]))
        /\ UNCHANGED <<rows_cache, ncalls>>

\* A thread mutates, once, the object its last call returned, if it is a list:
\* rv.append(1).  If the object is a cached one, it is the cache's that changes.
ThreadMutate ==
    \E t \in Threads :
        /\ last[t].op \in {"get_rows_from_nrows", "_cached_get_rows_from_nrows"}
        /\ last[t].rv.kind = "list"
        /\ ~last[t].mutated
        /\ last' = [last EXCEPT ![t].rv.items = Append(@, 1), ![t].mutated = TRUE]
        /\ rows_cache' = IF last[t].ref = <<>> THEN rows_cache
                         ELSE [rows_cache EXCEPT ![last[t].ref].items = Append(@, 1)]
        /\ UNCHANGED <<nrows_cache, call, ncalls>>

NextThreads ==
    \/ ThreadInvoke
    \/ ThreadGetRowsFromNrows
    \/ ThreadRowsLookup
    \/ ThreadRowsStore
    \/ ThreadNrowsLookup
    \/ ThreadNrowsStore
    \/ ThreadMutate

SpecThreads == InitThreads /\ [][NextThreads]_vars

\* What the function a frame calls yields for the frame's arguments when it is
\* computed alone, with no cache.
Uncached(frame) ==
    CASE frame.op = "get_rows_from_nrows" ->
            get_rows_from_nrows(frame.arg_nrows, frame.span_angle)
      [] frame.op = "_cached_get_rows_from_nrows" ->
            get_rows_from_nrows(frame.arg_nrows, frame.span_angle)
      [] frame.op \in {"get_nrows_from_nseats", "_cached_get_nrows_from_nseats"} ->
            get_nrows_from_nseats(frame.nseats, frame.span_angle, EmptyCache).rv
      [] frame.op = "get_seats_centers" ->
            get_seats_centers(frame.nseats, 0, DEFAULT, <<1, 1>>, frame.span_angle,
                              EmptyCache, EmptyCache).call

\* The value of what thread t was returned.
Returned(t) ==
    IF last[t].op \in {"get_rows_from_nrows", "_cached_get_rows_from_nrows"}
    THEN last[t].rv.items
    ELSE last[t].rv

\* C24: the memoization caches are safe under any interleaving of the calls of
\* several threads: every call returns exactly the value the uncached function
\* yields for its own arguments, an entry once stored in a cache is never changed
\* or dropped, and mutating the list the public get_rows_from_nrows returned alters
\* no cache, hence no later result (the cache holds tuples).
C24_CachesSafe ==
    [][/\ CacheKeeps(rows_cache, rows_cache')
       /\ CacheKeeps(nrows_cache, nrows_cache')
       /\ \A t \in Threads :
             (call[t].pc # "idle" /\ call'[t].pc = "idle")
                 => Returned(t)' = Uncached(call[t])
       /\ \A t \in Threads :
             (last[t].mutated # last'[t].mutated /\ last'[t].mutated)
                 => rows_cache' = rows_cache]_vars

\* C24's case: the threads have made all their calls; one has mutated the list the
\* public get_rows_from_nrows returned to it, another was returned a layout by
\* get_seats_centers, and the caches hold the row count of that layout and the
\* capacities of the diagram whose list was mutated.
C24_Witness ==
    \E t, u \in Threads :
        /\ t # u
        /\ last[t].op = "get_rows_from_nrows" /\ last[t].mutated
        /\ last[u].op = "get_seats_centers"
        /\ <<last[u].nseats, last[u].span_angle>> \in DOMAIN nrows_cache
        /\ <<last[t].arg_nrows, last[t].span_angle>> \in DOMAIN rows_cache
        /\ ncalls = MaxThreadCalls

\* The count of alloc entry i is within 0 and the capacity of its row.
WithinCapacity(i) ==
    /\ last.alloc[i][2] >= 0
    /\ last.alloc[i][2] <= Item(last.maxed_rows, last.alloc[i][1])

\* C25: in every layout get_seats_centers produces with min_nrows = 0, whatever the
\* strategy and nseats >= 0 (the last row absorbing the rounding drift included),
\* the number of seats allocated to a row is at least 0 and at most maxed_rows[r].
C25_AllocationWithinCapacity ==
    (StrategyChosen /\ last.min_nrows = 0 /\ last.stage = "return")
        => \A i \in 1..Len(last.alloc) : WithinCapacity(i)

\* C26: for every strategy and every nseats >= 0, starting_row is the index of a
\* real row, 0 <= starting_row <= nrows - 1, so that the loop never runs for a row
\* -1 (whose radius would be 0.5 - 2 * row_thicc), also when nseats equals the
\* total capacity of the rows.
C26_StartingRowIsARow ==
    StrategyChosen =>
        /\ 0 <= last.starting_row /\ last.starting_row <= last.nrows - 1
        /\ \A i \in 1..Len(last.alloc) : last.alloc[i][1] >= 0

\* C27: in get_svg_from_attribution the seat_radius_factor that get_seats_centers
\* receives (the one the positions are computed with, kept in the attribute
\* seat_radius_factor of the container returned) is the one the rendered seat
\* radius is computed with, for every value passed and for the default.
C27_SameSeatRadiusFactor ==
    SvgRendered => last.attr_seat_radius_factor = last.seat_radius_factor

\* C28: in the legacy module (src/__init__.py), for every nseats >= 0 and every
\* span_angle in (0, 180], the row count get_seats_centers chooses is
\* max(min_nrows, minimal row count for the seat count and the span), so that the
\* total capacity of its rows for that span is at least nseats: the filling ratio
\* never exceeds 1.
C28_LegacyRowsHoldTheSeats ==
    (last.op = "legacy_get_seats_centers" /\ last.span_angle <= 180)
        => /\ Sum(last.maxed_rows) >= last.nseats
           /\ \E k \in 1..last.nrows :
                 /\ IsMinimalNrows(k, last.nseats, last.span_angle)
                 /\ last.nrows = Max(last.min_nrows, k)

\* s is '#' followed by two hexadecimal digits for each of k components.
IsHexColour(s, k) ==
    /\ Len(s) = 1 + 2 * k
    /\ s[1] = "#"
    /\ \A i \in 2..Len(s) : s[i] \in HexChars

\* C30: for every Color with r, g, b, a in 0..255, str(color) is '#' followed by
\* exactly two hexadecimal digits per component (6 digits, 8 when a is not 255) and
\* no other character: a hex colour that the '#' pattern of scrape_svg matches, and
\* Color.from_hex(str(color)) is the color again.
C30_StrIsHexColour ==
    last.op = "Color.__str__" =>
        /\ IsHexColour(last.rv, IF last.color.a # 255 THEN 4 ELSE 3)
        /\ MatchesHexPattern(last.rv)
        /\ last.scraped = last.color
        /\ last.from_hex = [raised |-> "", rv |-> last.color]

\* from_scraped returned an Organized.
Organized == last.op = "Organized.from_scraped" /\ last.raised = ""

\* The numbers i of the seats scraped, that is of the paths identified as f"p{i}".
ScrapedSeats == {i \in 0..MaxSeatNumber : SeatKey(i) \in DOMAIN last.paths}

\* The places of seat i in the lists of grouped_seats, as <<group, index>>.
PlacesOf(i) ==
    {x \in (DOMAIN last.rv.grouped_seats) \X (1..(MaxSeatNumber + 1)) :
        /\ x[2] <= Len(last.rv.grouped_seats[x[1]])
        /\ last.rv.grouped_seats[x[1]][x[2]] = i}

GroupOf(i) == CHOOSE g \in DOMAIN last.rv.grouped_seats : \E x \in PlacesOf(i) : x[1] = g

\* C29: Organized.from_scraped partitions the paths of the scrape.  Every path
\* identified as p<i> is seat i: seats[i] is that path with its fill cleared, also
\* when seats of a lower number are missing.  No such path is left in
\* structural_paths and every other path is there, unchanged.  Every seat is in
\* the list of exactly one group of grouped_seats, once; two seats are in the same
\* group exactly when they had the same fill; group_colors has the keys of
\* grouped_seats.  (The identifiers of the seats are those from_scraped looks up,
\* f"p{i}": a path identified as p01 is not one of them.)
C29_ScrapedPathsPartitioned ==
    Organized =>
        /\ DOMAIN last.rv.seats = ScrapedSeats
        /\ \A i \in ScrapedSeats :
              last.rv.seats[i] = [last.paths[SeatKey(i)] EXCEPT !.fill = None]
        /\ DOMAIN last.rv.structural_paths
              = (DOMAIN last.paths) \ {SeatKey(i) : i \in ScrapedSeats}
        /\ \A key \in DOMAIN last.rv.structural_paths :
              last.rv.structural_paths[key] = last.paths[key]
        /\ \A g \in DOMAIN last.rv.grouped_seats :
              \A j \in 1..Len(last.rv.grouped_seats[g]) :
                  last.rv.grouped_seats[g][j] \in ScrapedSeats
        /\ \A i \in ScrapedSeats : Cardinality(PlacesOf(i)) = 1
        /\ \A i, j \in ScrapedSeats :
              (GroupOf(i) = GroupOf(j))
                  <=> (last.paths[SeatKey(i)].fill = last.paths[SeatKey(j)].fill)
        /\ DOMAIN last.rv.group_colors = DOMAIN last.rv.grouped_seats

\* C29's case: seat 0 is missing, seats 1 and 2 have the same fill, a Color, and
\* the last seat has none; the scrape holds the perchoir and a path p01 as well.
C29_Witness ==
    /\ Organized
    /\ 0 \notin ScrapedSeats
    /\ {1, 2, MaxSeatNumber} \subseteq ScrapedSeats
    /\ last.paths[SeatKey(1)].fill = last.paths[SeatKey(2)].fill
    /\ last.paths[SeatKey(1)].fill.type = "Color"
    /\ last.paths[SeatKey(MaxSeatNumber)].fill = None
    /\ OtherKeys \subseteq DOMAIN last.rv.structural_paths
    /\ Cardinality(DOMAIN last.rv.grouped_seats) = 2
====
